---- MODULE Spec2Model ----
(***************************************************************************)
(* Execution engine of the arbitrage bot (src/arbitrage_bot.py).           *)
(*                                                                         *)
(* Units.  Dollar amounts are integers in units of 5e-8 USD, so that one   *)
(* lamport (1e-9 SOL) at the code's fixed rate of 150 USD per SOL is       *)
(* exactly LamportUsd = 3 units and every Decimal product of the code is   *)
(* an exact integer here.  SOL amounts (gas_used, tips) are in lamports.   *)
(*                                                                         *)
(* Granularity.  The program is single-threaded asyncio: the code between  *)
(* two awaits runs atomically.  Every action below is one such segment of  *)
(* execute_arbitrage, from the completion of one awaited call to the start *)
(* of the next one, the except handler included when the segment raises.   *)
(* asyncio.sleep calls between two awaited network calls are folded into   *)
(* the later one.  A local that the code no longer reads is put back to    *)
(* its initial value (it is dead from there on), and the frame of a call   *)
(* that has returned keeps only the returned TradeResult and the history   *)
(* fields.                                                                 *)
(***************************************************************************)
EXTENDS Integers, Sequences, FiniteSets, TLC

\* ---------------------------------------------------------------- bounds
NumCalls == 2              \* concurrent execute_arbitrage calls
MaxTime == 1               \* clock ticks (the validity window is 1 tick)
MaxClock == 5              \* ticks of time.time()
MaxAcquires == 6           \* RateLimiter.acquire calls
MaxCacheClock == 3         \* ticks of time.time() seen by a cache
MaxExecutions == 1          \* executions before the market goes quiet
MaxDays == 1               \* midnights that go by
NumCallers == 3            \* tasks that call RateLimiter.acquire

\* ------------------------------------------------------ units, constants
USD == 20 * 1000 * 1000    \* units per dollar
MILLI == USD \div 1000     \* units per 0.001 USD
SOL_USD == 150             \* "gas_used * 150", "1e9 / 150"
LamportUsd == (SOL_USD * (USD \div (1000 * 1000))) \div 1000

max_daily_loss == 10 * USD          \* config 'max_daily_loss'
min_profit_for_jito == MILLI \div 2  \* config 'min_profit_for_jito'
min_profit_margin == 1              \* percent
min_required_spread_x10 == 12       \* Decimal('1.2') percent, times ten
min_sol_lamports == 100 * 1000 * 1000   \* 0.1 SOL
max_retries == 15
AssumedLoss == 10 * USD             \* "Assume $10 loss on failed trade"
FailedGas == 5 * 1000 * 1000        \* Decimal('0.005') SOL in lamports
SeqGas == 2 * 10000                 \* Decimal('0.00001') * 2 SOL in lamports
min_tip == 10000
max_tip == 1000000
token_scale == 10                   \* 10 ** token.decimals, decimals = 1

Calls == 1..NumCalls
DEX == {"jupiter", "raydium", "orca"}
None == <<>>
Some(v) == <<v>>
Val(x) == x[1]

Min(a, b) == IF a <= b THEN a ELSE b
Max(a, b) == IF a >= b THEN a ELSE b
Abs(a) == IF a < 0 THEN -a ELSE a
\* floor(a * n / d) without forming a * n (a >= 0, n >= 0, d > 0)
MulDiv(a, n, d) == (a \div d) * n + ((a % d) * n) \div d

\* ------------------------------------------------------------ inputs
\* (size_usd, expected_profit) of the opportunities handed to execute
Sizings == { <<USD \div 10, MILLI>>,        \* $0.10 for $0.001: 1% margin
             <<50 * USD, USD>>,             \* $50 for $1: 2% margin
             <<50 * USD, USD \div 4>> }     \* $50 for $0.25: 0.5% margin
DexPairs == { <<"jupiter", "raydium">>, <<"raydium", "jupiter">>,
              <<"jupiter", "jupiter">>, <<"orca", "raydium">> }
ExpiryTimes == {1, MaxTime + 1}

ArbitrageOpportunity ==
    { [buy_dex |-> d[1], sell_dex |-> d[2], buy_price |-> USD,
       size_usd |-> s[1], expected_profit |-> s[2], expires_at |-> e] :
      d \in DexPairs, s \in Sizings, e \in ExpiryTimes }

NoOpportunity ==
    [buy_dex |-> "jupiter", sell_dex |-> "jupiter", buy_price |-> USD,
     size_usd |-> 0, expected_profit |-> 0, expires_at |-> 0]

\* prices the venues can quote at reverification, None = lookup failed
FreshPrices == {None, Some(100 * MILLI * 10), Some(101 * MILLI * 10),
                Some(102 * MILLI * 10)}
\* wallet balances the RPC can report
SolBalances == {min_sol_lamports \div 2, min_sol_lamports}
InitialUsdc == {0, 60 * USD}
FinalUsdc == {60 * USD, 60 * USD + SeqGas * LamportUsd, 61 * USD}
RpcErrors == {"RPC connection failed"}

\* ------------------------------------------------------------ records
TradeResult(success, buy_tx, sell_tx, actual_profit, error, gas_used) ==
    [success |-> success, buy_tx |-> buy_tx, sell_tx |-> sell_tx,
     actual_profit |-> actual_profit, error |-> error, gas_used |-> gas_used]

NoResult == TradeResult(FALSE, "None", "None", None, "unset", 0)

VARIABLES
    use_jito,        \* self.use_jito and self.jito_client (configuration)
    now,             \* datetime.utcnow(), in ticks
    daily_loss,      \* self.daily_loss
    execution_lock,  \* self.execution_lock: 0 when free, else the holder
    lock_waiters,    \* calls suspended in the lock's acquire, FIFO
    call,            \* per call: position, argument, locals, result, history
    trades,          \* rows of the trades table, per opportunity_id
    clock,           \* time.time(), in ticks of 1 / TicksPerSecond seconds
    limiter,         \* a RateLimiter and the acquire call in progress
    acquisitions,    \* history: the acquire calls that have completed
    acquirers,       \* the limiter's asyncio.Lock and the tasks calling acquire
    price_cache,     \* a PriceCache: its cache dict, in iteration order
    cache_call,      \* history: the latest cache operation and its result
    quote,           \* the get_<dex>_price call in progress
    scan,            \* the find_arbitrage_opportunities call in progress
    impact,          \* the calculate_price_impact calls under comparison
    running,         \* self.running
    today,           \* datetime.utcnow().date(), in days
    last_loss_reset, \* self.last_loss_reset.date(), in days
    health,          \* the health_check task
    monitor          \* the monitor_loop task

\* the state of the execution engine, and the state of the other components
execution_vars ==
    <<use_jito, now, daily_loss, execution_lock, lock_waiters, call, trades>>
limiter_vars == <<limiter, acquisitions, acquirers>>
cache_vars == <<price_cache, cache_call>>
tasks_vars == <<running, today, last_loss_reset, health, monitor>>
component_vars ==
    <<clock, limiter_vars, cache_vars, quote, scan, impact, tasks_vars>>
vars == <<execution_vars, component_vars>>

\* locals of one execute_arbitrage call (sell_tx is the raw amount that the
\* sell transaction in hand was built for, sol_balance is in lamports) plus
\* its history (ghost) fields:
\*   loss      what this call has added to daily_loss
\*   net       the kinds of external calls it has made
\*   raised    the message of the exception caught at line 1396, if any
\*   buy_seen  the status polls observed the buy transaction confirmed
\*   fresh     the prices <<Jupiter, Raydium>> on which Reverify passed
\*   cached    the venues whose price Reverify took from the PriceCache
\*   sell_seen a status poll observed the sell transaction confirmed
\*             (execute_arbitrage polls buy_result.value only)
\*   saved     rows this call has written to the trades table
IdleCall ==
    [pc |-> "idle", opportunity |-> NoOpportunity,
     fresh_jupiter_data |-> None, sol_balance |-> None,
     usdc_balance |-> 0, path |-> "none",
     tip_lamports |-> 0, i |-> 0, sell_amount |-> 0, sell_tx |-> None,
     verified_balance |-> None, buy_tx_id |-> "None",
     result |-> NoResult,
     loss |-> 0, net |-> {}, raised |-> "None", fresh |-> None,
     cached |-> {},
     buy_seen |-> FALSE, sell_seen |-> FALSE, saved |-> 0]

\* ------------------------------------------ components after construction
\* RateLimiter(calls_per_second=2, burst=3), the limiter of the tests.
\* One token is TokenUnits units, so that one clock tick refills one unit
calls_per_second == 2
burst == 3
TicksPerSecond == 2 * calls_per_second
TokenUnits == TicksPerSecond \div calls_per_second

\* the two RateLimiter classes of the repository
LimiterImpls == {"arbitrage_bot", "modules"}

\* RateLimiter.__init__: a full bucket; pc, start, sleep_time and request
\* (the number of tokens asked for) are the position and the locals of the
\* acquire call in progress
NewLimiter(impl) ==
    [impl |-> impl, tokens |-> burst * TokenUnits, last_update |-> 0,
     pc |-> "idle", start |-> 0, sleep_time |-> 0, request |-> 0]

\* the tasks that call acquire on one limiter, each with the position and
\* the locals of its call; the limiter's lock (asyncio.Lock: _locked and
\* _waiters) and, as history, the tasks in the order in which they entered
\* "async with self.lock" and in which their calls returned
Callers == 1..NumCallers
IdleAcquire == [pc |-> "idle", start |-> 0, sleep_time |-> 0]
NoAcquirers ==
    [locked |-> FALSE, waiters |-> <<>>,
     call |-> [p \in Callers |-> IdleAcquire],
     requested |-> <<>>, served |-> <<>>]

\* the two PriceCache classes of the repository: the bot's own, without a
\* size limit, and the size-limited one of modules/price_cache.py
CacheImpls == {"arbitrage_bot", "modules"}
ttl == 2                   \* ttl_seconds, in clock ticks
max_size == 2              \* max_size of the size-limited cache

\* PriceCache.__init__: cache is the dict in its iteration order, a
\* sequence of <<key, value, timestamp>>
NewCache(impl) == [impl |-> impl, cache |-> <<>>]
\* history of a cache: the latest operation, its key, what it returned, the
\* keys it dropped, and the keys in the order of their last use (hit by
\* get or written by set), least recently used first
NoCacheCall ==
    [op |-> "none", key |-> None, result |-> None, evicted |-> {},
     recency |-> <<>>]

\* a get_<dex>_price call: its position, the venue asked, what it returned
\* and, as history, the response that the external lookup produced
NoResponse == [kind |-> "none", price |-> 0, liquidity |-> 0]
IdleQuote ==
    [pc |-> "idle", dex |-> "jupiter", result |-> None,
     response |-> NoResponse]
\* a find_arbitrage_opportunities call: its position, the index of the
\* token in hand, the locals usdc_balance and opportunities, the quotes
\* fetched so far for the token in hand (data) and, as history, all_prices
\* of every token dealt with (seen) and the opportunities written to the
\* database (persisted); min_price_difference is the bot's configured
\* threshold, in thousandths (Decimal('0.007') by default), and
\* max_price_impact its configured cap on the impact of both legs, in
\* units of 1e-7 (0.01 by default)
IdleScan ==
    [pc |-> "idle", min_price_difference |-> 7,
     max_price_impact |-> 100 * 1000, token |-> 0,
     usdc_balance |-> 0, data |-> <<>>,
     opportunities |-> <<>>, seen |-> <<>>, persisted |-> <<>>]
\* two calculate_price_impact calls, on the sizes a and b
NoImpact ==
    [pc |-> "idle", a |-> 0, b |-> 0, impact_a |-> None, impact_b |-> None]

\* the health_check task: its position and, as history, how its latest
\* pass through the loop body ended ("ok" or "failed")
IdleHealth == [pc |-> "idle", tick |-> "none"]
\* the monitor_loop task: its position, its locals consecutive_errors,
\* checks_count (modulo the period of the price log, the only use made of
\* it) and opportunities (None while unbound, else how many the latest
\* scan returned) and, as history, the number of cycles that have failed
\* in a row since the latest cycle without error or the latest cooldown,
\* how the latest cycle ended ("ok", "failed", "skipped" or, after the
\* pause of the handler, "paused"), and the number of execute_arbitrage
\* calls whose result the task has gathered
IdleMonitor ==
    [pc |-> "idle", consecutive_errors |-> 0, checks_count |-> 0,
     opportunities |-> None, failed_run |-> 0, ended |-> "none",
     executed |-> 0]
\* before start(): "self.running = False", "self.last_loss_reset =
\* datetime.utcnow()", no task created
IdleTasks ==
    /\ running = FALSE
    /\ today = 0
    /\ last_loss_reset = 0
    /\ health = IdleHealth
    /\ monitor = IdleMonitor

\* the bot's components after ProductionArbitrageBot.__init__, and the
\* execution engine before any call
IdleLimiter ==
    /\ limiter = NewLimiter("arbitrage_bot")
    /\ acquisitions = <<>>
    /\ acquirers = NoAcquirers
IdleCache == price_cache = NewCache("arbitrage_bot") /\ cache_call = NoCacheCall
IdleScanner == quote = IdleQuote /\ scan = IdleScan /\ impact = NoImpact
Components == clock = 0 /\ IdleLimiter /\ IdleCache /\ IdleScanner

\* the bot after construction, for either setting of use_jito_bundles
Fresh ==
    /\ Components
    /\ IdleTasks
    /\ use_jito \in BOOLEAN
    /\ now = 0
    /\ execution_lock = 0
    /\ lock_waiters = <<>>
    /\ call = [p \in Calls |-> IdleCall]
    /\ trades = [p \in Calls |-> <<>>]

\* the single caller finds the bot with no loss so far, or after the one
\* failed trade that an earlier call left behind
Init == Fresh /\ daily_loss \in {0, AssumedLoss}

\* the concurrent callers find the bot with no loss so far
ConcInit == Fresh /\ daily_loss = 0

\* the engine at rest, while another component is exercised
IdleEngine ==
    /\ IdleTasks
    /\ use_jito = FALSE
    /\ now = 0
    /\ daily_loss = 0
    /\ execution_lock = 0
    /\ lock_waiters = <<>>
    /\ call = [p \in Calls |-> IdleCall]
    /\ trades = [p \in Calls |-> <<>>]

\* ----------------------------------------------------- pure functions
\* (mutant: an opportunity still counts as valid at its expiry instant)
is_valid_inclusive(o, t) == t <= o.expires_at

\* ArbitrageOpportunity.is_valid
is_valid(o, t) == t < o.expires_at

\* JitoClient.calculate_optimal_tip
calculate_optimal_tip(profit_lamports) ==
    Max(min_tip, Min(MulDiv(profit_lamports, 15, 100), max_tip))

\* int(float(opportunity.expected_profit) * 1e9 / 150)
ExpectedProfitLamports(o) == o.expected_profit \div LamportUsd

\* int((size_usd / buy_price) * 10 ** decimals)
SellAmount(o) == MulDiv(o.size_usd, token_scale, o.buy_price)

\* (mutant: the limit itself is still allowed)
risk_limit_exceeded(dl) == dl > max_daily_loss

\* "if self.daily_loss >= self.max_daily_loss: return ... limit reached"
risk_limit_reached(dl) == dl >= max_daily_loss

\* "expected_margin < min_profit_margin", margin = profit / size * 100
margin_too_low(o) == o.expected_profit * 100 < min_profit_margin * o.size_usd

\* "fresh_price_diff_pct < min_required_spread",
\* pct = abs(sell - buy) / buy * 100
spread_too_narrow(buy, sell) ==
    Abs(sell - buy) * 1000 < min_required_spread_x10 * buy

\* which fresh price is the buy price, which the sell price
current_buy_price(o, jupiter, raydium) ==
    IF o.buy_dex = "jupiter" THEN jupiter ELSE raydium
current_sell_price(o, jupiter, raydium) ==
    IF o.buy_dex = "jupiter" THEN raydium ELSE jupiter

\* "self.use_jito and self.jito_client and float(expected_profit) > ..."
should_use_jito(o) == use_jito /\ o.expected_profit > min_profit_for_jito

\* the rejections returned before the lock is taken
ExpiredResult == TradeResult(FALSE, "None", "None", None,
                             "Opportunity expired", 0)
LimitResult == TradeResult(FALSE, "None", "None", None,
                           "Daily loss limit reached", 0)

\* the except clause of execute_arbitrage: the synthesized result ...
except_result(e) == TradeResult(FALSE, "None", "None", None, e, FailedGas)
\* (mutant: the handler forgets the loss accounting)
except_daily_loss_forgotten(dl) == dl

\* ... and "self.daily_loss += Decimal('10')"
except_daily_loss(dl) == dl + AssumedLoss

\* ------------------------------------------------------- transitions
\* call p continues as c2 and daily_loss becomes dl; the history field
\* loss accumulates whatever this step added to daily_loss
Goto(p, c2, dl) ==
    /\ call' = [call EXCEPT ![p] = [c2 EXCEPT !.loss = @ + (dl - daily_loss)]]
    /\ daily_loss' = dl

At(c, pc) == [c EXCEPT !.pc = pc]
\* what is left when the call is over: the result and the history
Returned(c, pc) ==
    [IdleCall EXCEPT !.pc = pc, !.result = c.result, !.loss = c.loss,
                     !.net = c.net, !.raised = c.raised,
                     !.fresh = c.fresh, !.cached = c.cached,
                     !.buy_seen = c.buy_seen, !.sell_seen = c.sell_seen,
                     !.saved = c.saved]
Net(c, kind) == [c EXCEPT !.net = @ \cup {kind}]

\* an exception with message e raised inside the try block: the handler
\* runs in the same segment and the call goes on to save_trade
Raise(p, c, e) ==
    Goto(p, [c EXCEPT !.result = except_result(e), !.raised = e,
                      !.pc = "save_trade", !.fresh_jupiter_data = None,
                      !.sol_balance = None,
                      !.usdc_balance = 0, !.i = 0, !.sell_amount = 0,
                      !.sell_tx = None, !.verified_balance = None],
         except_daily_loss(daily_loss))

\* the segment that starts when the lock has been acquired
EnterLock(p, c) ==
    IF margin_too_low(c.opportunity)
    THEN Raise(p, c, "Profit margin too low")
    ELSE Goto(p, At(c, "get_jupiter_price"), daily_loss)

\* execute_arbitrage is called with opportunity o: Validate, RiskCheck,
\* then the lock (taken at once when free and nobody waits for it)
Call(p, o) ==
    /\ call[p].pc = "idle"
    /\ LET c == [call[p] EXCEPT !.opportunity = o]
       IN  IF ~is_valid(o, now)
           THEN /\ Goto(p, Returned([c EXCEPT !.result = ExpiredResult],
                                     "returned"), daily_loss)
                /\ UNCHANGED <<execution_lock, lock_waiters>>
           ELSE IF risk_limit_reached(daily_loss)
           THEN /\ Goto(p, Returned([c EXCEPT !.result = LimitResult],
                                     "returned"), daily_loss)
                /\ UNCHANGED <<execution_lock, lock_waiters>>
           ELSE IF execution_lock = 0 /\ lock_waiters = <<>>
           THEN /\ execution_lock' = p
                /\ EnterLock(p, c)
                /\ UNCHANGED lock_waiters
           ELSE /\ Goto(p, At(c, "wait_lock"), daily_loss)
                /\ lock_waiters' = Append(lock_waiters, p)
                /\ UNCHANGED execution_lock
    /\ UNCHANGED <<use_jito, now, trades, component_vars>>

\* (mutant: the first waiter proceeds although the lock is held)
lock_available_unchecked(p) == Head(lock_waiters) = p

\* asyncio.Lock wakes its waiters first come, first served
lock_available(p) == execution_lock = 0 /\ Head(lock_waiters) = p

AcquireLock(p) ==
    /\ call[p].pc = "wait_lock"
    /\ lock_waiters # <<>>
    /\ lock_available(p)
    /\ execution_lock' = p
    /\ lock_waiters' = Tail(lock_waiters)
    /\ EnterLock(p, call[p])
    /\ UNCHANGED <<use_jito, now, trades, component_vars>>

\* a step of call p inside the lock that touches neither lock nor table
Inside ==
    UNCHANGED <<use_jito, now, execution_lock, lock_waiters, trades,
                component_vars>>

\* the positions at which a call is about to look up a price for Reverify
\* or to submit a transaction or a bundle
ReverifyPcs == {"get_jupiter_price", "get_raydium_price"}
SubmitPcs == {"send_bundle", "send_buy", "send_sell"}

\* get_jupiter_price has returned q to call p, now c
GotJupiterPrice(p, c, q) ==
    Goto(p, At([c EXCEPT !.fresh_jupiter_data = q], "get_raydium_price"),
         daily_loss)

\* get_raydium_price has returned q to call p, now c: the spread check up
\* to the RPC balance query.  A buy price of 0 makes the division
\* "fresh_price_diff / current_buy_price" raise
GotRaydiumPrice(p, c, q) ==
    LET j == c.fresh_jupiter_data
        o == c.opportunity
    IN  IF j = None \/ q = None
        THEN Raise(p, c, "Failed to get fresh prices for verification")
        ELSE IF current_buy_price(o, Val(j), Val(q)) = 0
        THEN Raise(p, c, "DivisionByZero")
        ELSE IF spread_too_narrow(current_buy_price(o, Val(j), Val(q)),
                                  current_sell_price(o, Val(j), Val(q)))
        THEN Raise(p, c, "Price spread too narrow")
        ELSE Goto(p, At([c EXCEPT !.fresh_jupiter_data = None,
                                  !.fresh = Some(<<Val(j), Val(q)>>)],
                        "get_balance"), daily_loss)

\* Reverify: "fresh_jupiter_data = await self.get_jupiter_price(token)"
GetJupiterPrice(p) ==
    /\ call[p].pc = "get_jupiter_price"
    /\ \E q \in FreshPrices : GotJupiterPrice(p, Net(call[p], "quote"), q)
    /\ Inside

\* "fresh_raydium_data = await self.get_raydium_price(token)", then the
\* spread check
GetRaydiumPrice(p) ==
    /\ call[p].pc = "get_raydium_price"
    /\ \E q \in FreshPrices : GotRaydiumPrice(p, Net(call[p], "quote"), q)
    /\ Inside

\* (mutant: the balance of SOL is read and not checked)
sol_unchecked(sol_balance) == FALSE

\* "if sol_balance < 0.1:"
sol_insufficient(sol_balance) == sol_balance < min_sol_lamports

\* SizeConfirm: "balance_response = await self.client.get_balance(...)"
GetBalance(p) ==
    /\ call[p].pc = "get_balance"
    /\ LET c == Net(call[p], "rpc")
       IN  \/ \E e \in RpcErrors : Raise(p, c, e)
           \/ \E sol \in SolBalances :
                IF sol_insufficient(sol)
                THEN Raise(p, c, "Insufficient SOL balance for fees")
                ELSE Goto(p, At([c EXCEPT !.sol_balance = Some(sol)],
                                "get_usdc_balance"), daily_loss)
    /\ Inside

\* the first leg's builder call of the chosen path; in the atomic path a
\* buy venue other than Jupiter has no builder: buy_tx = None, no await
ChoosePath(p, c) ==
    IF should_use_jito(c.opportunity)
    THEN IF c.opportunity.buy_dex = "jupiter"
         THEN Goto(p, At([c EXCEPT !.path = "jito"], "jito_build_buy"),
                   daily_loss)
         ELSE Raise(p, [c EXCEPT !.path = "jito"],
                    "Failed to build buy transaction")
    ELSE Goto(p, At([c EXCEPT !.path = "sequential"], "build_buy"),
              daily_loss)

\* "usdc_balance = await self.get_usdc_balance()" (0.0 on any RPC error)
GetUsdcBalance(p) ==
    /\ call[p].pc = "get_usdc_balance"
    /\ \E b \in InitialUsdc :
         LET c == Net([call[p] EXCEPT !.usdc_balance = b], "rpc")
         IN  IF b < c.opportunity.size_usd
             THEN Raise(p, c, "Insufficient USDC balance")
             ELSE ChoosePath(p, c)
    /\ Inside

\* what a transaction builder returns: a transaction or None (the history
\* field net then holds "no_tx")
BuilderOutcomes == {"tx", "None"}
\* what one get_signature_statuses poll of the buy transaction shows:
\* no status yet or not yet confirmed, an on-chain error, confirmed, or
\* the RPC call itself raising
PollOutcomes == {"pending", "err", "confirmed", "exception"}
\* what the relay reports about a submitted bundle
BundleOutcomes == {"confirmed", "failed", "timeout"}

\* JitoClient.wait_for_bundle_confirmation: True only when the relay
\* reports the bundle confirmed; failed, rejected and timeout give False
wait_for_bundle_confirmation(outcome) == outcome = "confirmed"

\* the TradeResult of a confirmed bundle:
\* gas_used = tip in SOL, actual_profit = expected_profit - gas_used * 150
bundle_result(o, tip) ==
    TradeResult(TRUE, "jito_bundle", "jito_bundle",
                Some(o.expected_profit - tip * LamportUsd), "None", tip)

\* the TradeResult of the sequential path:
\* usdc_received = final - initial + size,
\* actual_profit = usdc_received - size - gas_used * 150
sequential_profit(o, initial, final) ==
    ((final - initial) + o.size_usd) - o.size_usd - SeqGas * LamportUsd
sequential_result(o, initial, final) ==
    TradeResult(TRUE, "buy_tx", "sell_tx",
                Some(sequential_profit(o, initial, final)), "None", SeqGas)

\* "if actual_profit < 0: self.daily_loss += abs(actual_profit)"
settle_daily_loss(dl, actual_profit) ==
    IF actual_profit < 0 THEN dl + Abs(actual_profit) ELSE dl

\* ------------------------------------------------- Execute / Atomic
\* "buy_tx = await TransactionBuilder.build_jupiter_swap(...)"; the sell
\* venue has a builder only when it is Jupiter
JitoBuildBuy(p) ==
    /\ call[p].pc = "jito_build_buy"
    /\ \E b \in BuilderOutcomes :
         LET c == Net(call[p], "build")
         IN  IF b = "None"
             THEN Raise(p, Net(c, "no_tx"),
                        "Failed to build buy transaction")
             ELSE IF c.opportunity.sell_dex # "jupiter"
             THEN Raise(p, c, "Failed to build sell transaction")
             ELSE Goto(p, At([c EXCEPT !.sell_amount =
                                         SellAmount(c.opportunity)],
                             "jito_build_sell"), daily_loss)
    /\ Inside

\* the sell leg is built, then the tip is computed and the bundle's
\* transactions are requested (get_latest_blockhash is the next await)
JitoBuildSell(p) ==
    /\ call[p].pc = "jito_build_sell"
    /\ \E b \in BuilderOutcomes :
         LET c == Net(call[p], "build")
         IN  IF b = "None"
             THEN Raise(p, Net(c, "no_tx"),
                        "Failed to build sell transaction")
             ELSE Goto(p, At([c EXCEPT !.tip_lamports =
                                 calculate_optimal_tip(
                                   ExpectedProfitLamports(c.opportunity))],
                             "build_bundle_transactions"), daily_loss)
    /\ Inside

\* JitoClient.build_bundle_transactions: raises when the blockhash query
\* or the compilation of a message fails
BuildBundleTransactions(p) ==
    /\ call[p].pc = "build_bundle_transactions"
    /\ LET c == Net(call[p], "rpc")
       IN  \/ \E e \in RpcErrors : Raise(p, c, e)
           \/ Goto(p, At(c, "send_bundle"), daily_loss)
    /\ Inside

\* JitoClient.send_bundle returns (success, bundle_id, error)
SendBundle(p) ==
    /\ call[p].pc = "send_bundle"
    /\ \E success \in BOOLEAN :
         LET c == Net(call[p], "bundle")
         IN  IF success
             THEN Goto(p, At(c, "wait_for_bundle_confirmation"), daily_loss)
             ELSE Raise(p, c, "Failed to send bundle")
    /\ Inside

WaitForBundleConfirmation(p) ==
    /\ call[p].pc = "wait_for_bundle_confirmation"
    /\ \E outcome \in BundleOutcomes :
         LET c == Net(call[p], "bundle")
         IN  IF wait_for_bundle_confirmation(outcome)
             THEN Goto(p, [c EXCEPT !.result =
                               bundle_result(c.opportunity, c.tip_lamports),
                             !.pc = "save_trade", !.sell_amount = 0,
                             !.sol_balance = None],
                       daily_loss)
             ELSE Raise(p, c, "Bundle not confirmed")
    /\ Inside

\* --------------------------------------------- Execute / Sequential
BuildBuy(p) ==
    /\ call[p].pc = "build_buy"
    /\ \E b \in BuilderOutcomes :
         LET c == Net(call[p], "build")
         IN  IF b = "None"
             THEN Raise(p, Net(c, "no_tx"),
                        "Failed to build buy transaction")
             ELSE Goto(p, At(c, "send_buy"), daily_loss)
    /\ Inside

\* "buy_result = await self.client.send_raw_transaction(tx_bytes)"
SendBuy(p) ==
    /\ call[p].pc = "send_buy"
    /\ LET c == Net(call[p], "send")
       IN  \/ \E e \in RpcErrors : Raise(p, c, e)
           \/ Goto(p, At([c EXCEPT !.buy_tx_id = "buy_tx", !.i = 0],
                         "poll_buy"), daily_loss)
    /\ Inside

\* the code after the confirmation loop, up to the sell leg's builder
AfterBuyLoop(p, c) ==
    Goto(p, At([c EXCEPT !.sell_amount = SellAmount(c.opportunity),
                         !.i = 0],
               "build_sell"), daily_loss)

\* one iteration of "for i in range(max_retries)": sleep, poll, decide.
\* The exception raised for an on-chain error is raised inside the loop's
\* own try and is caught by its except clause like an RPC failure
PollBuy(p) ==
    /\ call[p].pc = "poll_buy"
    /\ \E status \in PollOutcomes :
         LET c == Net(call[p], "poll")
             last == c.i = max_retries - 1
         IN  CASE status = "confirmed" ->
                    AfterBuyLoop(p, [c EXCEPT !.buy_seen = TRUE])
               [] status \in {"err", "exception"} ->
                    IF last
                    THEN Raise(p, c, "Buy transaction confirmation timeout")
                    ELSE Goto(p, [c EXCEPT !.i = @ + 1], daily_loss)
               [] status = "pending" ->
                    IF last
                    THEN AfterBuyLoop(p, c)
                    ELSE Goto(p, [c EXCEPT !.i = @ + 1], daily_loss)
    /\ Inside

BuildSell(p) ==
    /\ call[p].pc = "build_sell"
    /\ \E b \in BuilderOutcomes :
         LET c == Net(call[p], "build")
         IN  IF b = "None"
             THEN Raise(p, Net(c, "no_tx"),
                        "Failed to build sell transaction")
             ELSE Goto(p, At([c EXCEPT !.sell_tx = Some(c.sell_amount)],
                             "verify_balance"), daily_loss)
    /\ Inside

\* (mutant: a balance one raw unit short of the estimate is let through)
balance_short_by_more(verified_balance, sell_amount) ==
    verified_balance + 1 < sell_amount

\* "if verified_balance < sell_amount:"
balance_short(verified_balance, sell_amount) ==
    verified_balance < sell_amount

\* token balances the RPC can report after the buy, around the estimate
VerifiedBalances(c) ==
    {0, c.sell_amount, c.sell_amount + 1} \cup
    (IF c.sell_amount > 1 THEN {c.sell_amount - 1} ELSE {})

\* "token_accounts = await ...get_token_accounts_by_owner_json_parsed";
\* the sell amount is clamped to the verified balance and the sell
\* transaction rebuilt for it
VerifyBalance(p) ==
    /\ call[p].pc = "verify_balance"
    /\ LET c == Net(call[p], "rpc")
       IN  \/ \E e \in RpcErrors : Raise(p, c, e)
           \/ \E verified_balance \in VerifiedBalances(c) :
                LET v == [c EXCEPT !.verified_balance =
                                       Some(verified_balance)]
                IN  IF balance_short(verified_balance, c.sell_amount)
                    THEN Goto(p, At([v EXCEPT !.sell_amount =
                                                  verified_balance],
                                    "rebuild_sell"), daily_loss)
                    ELSE Goto(p, At(v, "send_sell"), daily_loss)
    /\ Inside

RebuildSell(p) ==
    /\ call[p].pc = "rebuild_sell"
    /\ \E b \in BuilderOutcomes :
         LET c == Net(call[p], "build")
         IN  IF b = "None"
             THEN Raise(p, Net(c, "no_tx"),
                        "Failed to build sell transaction")
             ELSE Goto(p, At([c EXCEPT !.sell_tx = Some(c.sell_amount)],
                             "send_sell"), daily_loss)
    /\ Inside

\* "sell_result = await self.client.send_raw_transaction(tx_bytes)"
SendSell(p) ==
    /\ call[p].pc = "send_sell"
    /\ LET c == Net(call[p], "send")
       IN  \/ \E e \in RpcErrors : Raise(p, c, e)
           \/ Goto(p, At([c EXCEPT !.sell_amount = 0, !.sell_tx = None,
                                    !.verified_balance = None],
                         "final_balance"), daily_loss)
    /\ Inside

\* "final_usdc_balance = await self.get_usdc_balance()", the result and
\* the loss accounting; after a loss the current prices are logged
FinalBalance(p) ==
    /\ call[p].pc = "final_balance"
    /\ \E final \in FinalUsdc :
         LET c == Net(call[p], "rpc")
             o == c.opportunity
             actual_profit == sequential_profit(o, c.usdc_balance, final)
         IN  Goto(p, [c EXCEPT
                        !.result = sequential_result(o, c.usdc_balance, final),
                        !.usdc_balance = 0, !.sol_balance = None,
                        !.pc = IF actual_profit < 0 THEN "log_prices"
                               ELSE "save_trade"],
                  settle_daily_loss(daily_loss, actual_profit))
    /\ Inside

\* "current_jupiter = await self.get_jupiter_price(...)" and the Raydium
\* lookup after it, used only for logging; neither can raise
LogPrices(p) ==
    /\ call[p].pc = "log_prices"
    /\ Goto(p, At(Net(call[p], "quote"), "save_trade"), daily_loss)
    /\ Inside

\* ------------------------------------------------------------ Settle
\* "await self.db.save_trade(opportunity, result)" then "return result";
\* the call is outside the try block, so a database error leaves
\* execute_arbitrage as an exception; the lock is released either way
SaveTrade(p) ==
    /\ call[p].pc = "save_trade"
    /\ \/ /\ trades' = [trades EXCEPT ![p] = Append(@, call[p].result)]
          /\ Goto(p, Returned([call[p] EXCEPT !.saved = @ + 1], "returned"),
                  daily_loss)
       \/ /\ Goto(p, Returned(call[p], "raised"), daily_loss)
          /\ UNCHANGED trades
    /\ execution_lock' = 0
    /\ UNCHANGED <<use_jito, now, lock_waiters, component_vars>>

\* the clock advances
Tick ==
    /\ now < MaxTime
    /\ now' = now + 1
    /\ UNCHANGED <<use_jito, daily_loss, execution_lock, lock_waiters, call,
                   trades, component_vars>>

\* the steps of call p between taking the lock and returning
Locked(p) ==
    \/ GetJupiterPrice(p)
    \/ GetRaydiumPrice(p)
    \/ GetBalance(p)
    \/ GetUsdcBalance(p)
    \/ JitoBuildBuy(p)
    \/ JitoBuildSell(p)
    \/ BuildBundleTransactions(p)
    \/ SendBundle(p)
    \/ WaitForBundleConfirmation(p)
    \/ BuildBuy(p)
    \/ SendBuy(p)
    \/ PollBuy(p)
    \/ BuildSell(p)
    \/ VerifyBalance(p)
    \/ RebuildSell(p)
    \/ SendSell(p)
    \/ FinalBalance(p)
    \/ LogPrices(p)
    \/ SaveTrade(p)

\* one caller: a single execute_arbitrage call, on any opportunity
Next ==
    \/ \E o \in ArbitrageOpportunity : Call(1, o)
    \/ Locked(1)
    \/ Tick

Spec == Init /\ [][Next]_vars

\* the event loop resumes a call whose awaited operation has completed,
\* and every awaited operation completes (each has a timeout or an error)
LiveSpec == Init /\ [][Next]_vars /\ WF_vars(Locked(1))

\* the opportunities of the concurrent callers: $50 for $1 with both legs
\* on Jupiter (the one venue pair for which either execution path has
\* builders for both legs), about to expire or not
ConcurrentOpportunity ==
    { o \in ArbitrageOpportunity :
        /\ o.size_usd = 50 * USD /\ o.expected_profit = USD
        /\ o.buy_dex = "jupiter" /\ o.sell_dex = "jupiter" }

\* several callers: execute_arbitrage called concurrently
ConcNext ==
    \/ \E p \in Calls : \E o \in ConcurrentOpportunity : Call(p, o)
    \/ \E p \in Calls : AcquireLock(p)
    \/ \E p \in Calls : Locked(p)
    \/ Tick

ConcSpec == ConcInit /\ [][ConcNext]_vars

\* ======================================================= price impact
\* impacts are in units of 1e-7 (ImpactUnits per 1.0), sizes in dollars
ImpactUnits == 10 * 1000 * 1000

\* ProductionArbitrageBot.calculate_price_impact:
\* Decimal('0.0001') up to $100, Decimal('0.0005') up to $1000,
\* Decimal('0.001') * (size_usd / Decimal('10000')) above
calculate_price_impact(size_usd) ==
    IF size_usd <= 100
    THEN ImpactUnits \div 10000
    ELSE IF size_usd <= 1000
    THEN (5 * ImpactUnits) \div 10000
    ELSE ((ImpactUnits \div 1000) * size_usd) \div 10000

\* notionals: the sizes of the scanner's ladders, the band edges and the
\* size used by the tests
ImpactSizes == {10, 50, 100, 101, 200, 500, 1000, 1001, 2000, 5000, 50000}

ImpactRest == UNCHANGED <<execution_vars, tasks_vars, clock, limiter_vars, cache_vars,
                          quote, scan>>
\* the estimate for the first size, then the estimate for the second
ImpactOfA ==
    /\ impact.pc = "a"
    /\ impact' = [impact EXCEPT
                    !.impact_a = Some(calculate_price_impact(impact.a)),
                    !.pc = "b"]
    /\ ImpactRest
ImpactOfB ==
    /\ impact.pc = "b"
    /\ impact' = [impact EXCEPT
                    !.impact_b = Some(calculate_price_impact(impact.b)),
                    !.pc = "done"]
    /\ ImpactRest

ImpactInit ==
    /\ IdleEngine
    /\ clock = 0
    /\ IdleLimiter
    /\ IdleCache
    /\ quote = IdleQuote
    /\ scan = IdleScan
    /\ impact \in {[NoImpact EXCEPT !.pc = "a", !.a = a, !.b = b] :
                     a \in ImpactSizes, b \in ImpactSizes}

ImpactNext == ImpactOfA \/ ImpactOfB

ImpactSpec == ImpactInit /\ [][ImpactNext]_vars

\* ====================================== find_arbitrage_opportunities
\* Units.  Prices are in thousandths of a dollar, sizes, balances and
\* liquidities in dollars, profits in units of 1e-4 dollar.  Every amount
\* the code compares a profit with is a whole number of these units, so
\* the comparisons made on profits rounded down to the unit are exact.
max_position_size == 5000           \* config 'max_position_size'
\* config 'min_price_difference': the default 0.7% and a stricter 2%
MinPriceDifferences == {IdleScan.min_price_difference, 20}
max_price_impact == ImpactUnits \div 100    \* config 'max_price_impact'
\* the default 1% and a cap of 0.01%, under the estimate of any size
MaxPriceImpacts == {max_price_impact, ImpactUnits \div 10000}
min_profit_usd == 10                \* Decimal('0.001') of the test mode
min_margin_percent == 1             \* min_profit_margin = Decimal('1.0')
swap_fees_per_dollar == 50          \* Decimal('0.0025') * 2, in profit units
gas_fees == 45                      \* Decimal('0.00003') * 150

\* self.tokens, by symbol; the second is one of the symbols given a floor
\* on the size allowed by liquidity
Tokens == <<"SOL", "BONK">>
LowLiquiditySymbols == {"BONK", "WIF", "POPCAT", "MEME"}
\* the venues in the order in which their quotes are fetched
ScanDex == <<"jupiter", "raydium", "orca", "meteora">>

\* what get_usdc_balance can return (0.0 also on any error)
ScanBalances == {0, 40, 150, 600}
\* what each venue's lookup can return: None or (price, liquidity)
ScanQuotes(dex) ==
    CASE dex = "jupiter" ->
           {None, Some(<<0, 50000>>), Some(<<1000, 50000>>),
            Some(<<1000, 100>>), Some(<<1020, 50000>>)}
      [] dex = "raydium" ->
           {None, Some(<<1000, 50000>>), Some(<<1001, 50000>>),
            Some(<<975, 50000>>), Some(<<1020, 50000>>)}
      [] dex = "orca" -> {None, Some(<<990, 50000>>), Some(<<1020, 150>>)}
      [] dex = "meteora" -> {None, Some(<<1007, 50000>>)}

RECURSIVE GCD(_, _)
GCD(a, b) == IF b = 0 THEN a ELSE GCD(b, a % b)
\* the first k decimal digits of r / d (0 <= r < d), by long division
RECURSIVE Digits(_, _, _)
Digits(r, d, k) ==
    IF k = 0 THEN 0
    ELSE ((r * 10) \div d) * (10 ^ (k - 1)) + Digits((r * 10) % d, d, k - 1)

\* "all_prices": (dex, price, liquidity) of the venues that returned a
\* quote, in the order of the lookups
RECURSIVE all_prices(_, _)
all_prices(data, n) ==
    IF n > Len(data) THEN <<>>
    ELSE (IF data[n] = None THEN <<>>
          ELSE <<[dex |-> ScanDex[n], price |-> Val(data[n])[1],
                  liquidity |-> Val(data[n])[2]]>>)
         \o all_prices(data, n + 1)

\* "for i in range(len(all_prices)): for j in range(i + 1, ...)"
PairsOf(n) ==
    LET within(ij) == ij[2] <= n
    IN  SelectSeq(<< <<1, 2>>, <<1, 3>>, <<1, 4>>, <<2, 3>>, <<2, 4>>,
                     <<3, 4>> >>, within)

\* "price_diff / min(price1, price2)" raises when the lower price is zero
DivisionByZero(prices) ==
    \E n \in 1..Len(PairsOf(Len(prices))) :
       LET ij == PairsOf(Len(prices))[n]
       IN  Min(prices[ij[1]].price, prices[ij[2]].price) = 0

\* (mutant: any difference at all qualifies a pair)
difference_unchecked(price_diff, low) == TRUE

\* "price_diff_pct >= self.min_price_difference * 100", with
\* price_diff_pct = price_diff / min(price1, price2) * 100
difference_sufficient(price_diff, low) ==
    price_diff * 1000 >= scan.min_price_difference * low

\* (mutant: the first venue of the pair is always named as the buy leg)
best_of_first_venue(a, b, price_diff) ==
    [buy_dex |-> a.dex, sell_dex |-> b.dex,
     buy_price |-> Min(a.price, b.price),
     sell_price |-> Max(a.price, b.price),
     available_liquidity |-> Min(a.liquidity, b.liquidity),
     price_diff |-> price_diff]

\* "best_opportunity = (buy_dex, sell_dex, buy_price, sell_price,
\* available_liquidity, price_diff_pct)": the buy leg is the cheaper venue
best_of(a, b, price_diff) ==
    IF a.price < b.price
    THEN [buy_dex |-> a.dex, sell_dex |-> b.dex, buy_price |-> a.price,
          sell_price |-> b.price,
          available_liquidity |-> Min(a.liquidity, b.liquidity),
          price_diff |-> price_diff]
    ELSE [buy_dex |-> b.dex, sell_dex |-> a.dex, buy_price |-> b.price,
          sell_price |-> a.price,
          available_liquidity |-> Min(a.liquidity, b.liquidity),
          price_diff |-> price_diff]

\* (mutant: a pair that ties with the best so far replaces it)
RECURSIVE best_opportunity_last(_, _, _)
best_opportunity_last(prices, n, best) ==
    IF n > Len(PairsOf(Len(prices))) THEN best
    ELSE LET ij == PairsOf(Len(prices))[n]
             a == prices[ij[1]]
             b == prices[ij[2]]
             price_diff == Abs(a.price - b.price)
             low == Min(a.price, b.price)
             larger == IF best = None THEN price_diff > 0
                       ELSE price_diff * Val(best).buy_price >=
                            Val(best).price_diff * low
         IN  best_opportunity_last(prices, n + 1,
                 IF larger /\ difference_sufficient(price_diff, low)
                 THEN Some(best_of(a, b, price_diff))
                 ELSE best)

\* the pair loop from its n-th pair on; best is None or the best pair so
\* far.  "price_diff_pct > best_diff_pct" compares price_diff / buy_price
\* of the two pairs (best_diff_pct is 0 at first)
RECURSIVE best_opportunity(_, _, _)
best_opportunity(prices, n, best) ==
    IF n > Len(PairsOf(Len(prices))) THEN best
    ELSE LET ij == PairsOf(Len(prices))[n]
             a == prices[ij[1]]
             b == prices[ij[2]]
             price_diff == Abs(a.price - b.price)
             low == Min(a.price, b.price)
             larger == IF best = None THEN price_diff > 0
                       ELSE price_diff * Val(best).buy_price >
                            Val(best).price_diff * low
         IN  best_opportunity(prices, n + 1,
                 IF larger /\ difference_sufficient(price_diff, low)
                 THEN Some(best_of(a, b, price_diff))
                 ELSE best)

\* "max_size = min(max_size_by_balance, max_size_by_config,
\* max_size_by_liquidity)", in tenths of a dollar: half the balance, the
\* configured cap, a tenth of the liquidity (at least $1000 for some symbols)
max_trade_size(symbol, usdc_balance, best) ==
    LET by_liquidity == IF symbol \in LowLiquiditySymbols
                        THEN Max(best.available_liquidity, 1000 * 10)
                        ELSE best.available_liquidity
    IN  Min(usdc_balance * 5, Min(max_position_size * 10, by_liquidity))

\* "Dynamic trade sizes based on available balance"
trade_sizes(usdc_balance) ==
    IF usdc_balance < 100 THEN <<10, 15, 20, 25, 30, 40, 50>>
    ELSE IF usdc_balance < 500 THEN <<20, 50, 100, 150, 200, 300>>
    ELSE <<50, 100, 200, 500, 1000, 2000>>

\* "revenue = size_usd / (buy_price * (1 + buy_impact)) *
\* (sell_price * (1 - sell_impact))", rounded down to the profit unit
revenue(size_usd, best) ==
    LET impact_of == calculate_price_impact(size_usd)
        g == GCD(ImpactUnits + impact_of, ImpactUnits - impact_of)
        n == size_usd * best.sell_price * ((ImpactUnits - impact_of) \div g)
        d == best.buy_price * ((ImpactUnits + impact_of) \div g)
    IN  (n \div d) * 10000 + Digits(n % d, d, 4)

\* "net_profit = gross_profit - swap_fees - gas_fees"
net_profit(size_usd, best) ==
    revenue(size_usd, best) - size_usd * 10000
        - size_usd * swap_fees_per_dollar - gas_fees

\* (mutant: the margin floor is not applied)
profitable_without_margin(size_usd, best) ==
    net_profit(size_usd, best) >= min_profit_usd

\* "net_profit >= self.min_profit_usd and profit_margin >= min_profit_margin"
\* with profit_margin = net_profit / size_usd * 100
profitable(size_usd, best) ==
    /\ net_profit(size_usd, best) >= min_profit_usd
    /\ net_profit(size_usd, best) * 100 >= min_margin_percent * size_usd * 10000

\* (mutant: the ladder is walked to its end and the last size that pays is
\* taken, by a second record of the same token)
RECURSIVE sizes_found_all(_, _, _, _)
sizes_found_all(sizes, n, limit, best) ==
    IF n > Len(sizes) THEN <<>>
    ELSE IF sizes[n] * 10 > limit THEN <<>>
    ELSE (IF 2 * calculate_price_impact(sizes[n]) <= scan.max_price_impact
             /\ profitable(sizes[n], best)
          THEN <<sizes[n]>> ELSE <<>>)
         \o sizes_found_all(sizes, n + 1, limit, best)

\* "for size in trade_sizes": the loop breaks at the first size above
\* max_size, skips a size whose impact is too high, and breaks at the
\* first size that is profitable: the sizes for which an opportunity is
\* appended
RECURSIVE sizes_found(_, _, _, _)
sizes_found(sizes, n, limit, best) ==
    IF n > Len(sizes) THEN <<>>
    ELSE IF sizes[n] * 10 > limit THEN <<>>
    ELSE IF 2 * calculate_price_impact(sizes[n]) > scan.max_price_impact
    THEN sizes_found(sizes, n + 1, limit, best)
    ELSE IF profitable(sizes[n], best) THEN <<sizes[n]>>
    ELSE sizes_found(sizes, n + 1, limit, best)

\* "opportunity = ArbitrageOpportunity(...)" of the scan
ScannedOpportunity(symbol, best, size_usd) ==
    [token |-> symbol, buy_dex |-> best.buy_dex, sell_dex |-> best.sell_dex,
     buy_price |-> best.buy_price, sell_price |-> best.sell_price,
     size_usd |-> size_usd, expected_profit |-> net_profit(size_usd, best),
     price_impact |-> 2 * calculate_price_impact(size_usd)]

\* the opportunities appended for a token whose quotes are prices: none
\* with fewer than two quotes, when the division raises (the except clause
\* moves on to the next token), without a qualifying pair or without a
\* profitable size
found(symbol, usdc_balance, prices) ==
    IF Len(prices) < 2 \/ DivisionByZero(prices) THEN <<>>
    ELSE LET best == best_opportunity(prices, 1, None)
         IN  IF best = None THEN <<>>
             ELSE LET sizes == sizes_found(trade_sizes(usdc_balance), 1,
                                  max_trade_size(symbol, usdc_balance, Val(best)),
                                  Val(best))
                  IN  [n \in 1..Len(sizes) |->
                         ScannedOpportunity(symbol, Val(best), sizes[n])]

ScanRest == UNCHANGED <<execution_vars, tasks_vars, clock, limiter_vars, cache_vars,
                        quote, impact>>

\* "usdc_balance = await self.get_usdc_balance()", then the first token
FindArbitrageOpportunities ==
    /\ scan.pc = "idle"
    /\ \E b \in ScanBalances :
         scan' = [scan EXCEPT !.pc = "get_price", !.token = 1,
                              !.usdc_balance = b]
    /\ ScanRest

\* "for token in self.tokens": the next token, or "return opportunities"
NextToken(sc) ==
    IF sc.token = Len(Tokens)
    THEN [sc EXCEPT !.pc = "returned", !.token = 0, !.data = <<>>]
    ELSE [sc EXCEPT !.pc = "get_price", !.token = @ + 1, !.data = <<>>]

\* one of the four price lookups returns; after the last one the pairs are
\* compared and the ladder is walked, up to "await self.db.save_opportunity"
ScanGetPrice ==
    /\ scan.pc = "get_price"
    /\ \E q \in ScanQuotes(ScanDex[Len(scan.data) + 1]) :
         LET data == Append(scan.data, q)
         IN  IF Len(data) < Len(ScanDex)
             THEN scan' = [scan EXCEPT !.data = data]
             ELSE LET prices == all_prices(data, 1)
                      new == found(Tokens[scan.token], scan.usdc_balance,
                                   prices)
                      sc == [scan EXCEPT !.seen = Append(@, prices),
                                         !.opportunities = @ \o new]
                  IN  scan' = IF new = <<>> THEN NextToken(sc)
                              ELSE [sc EXCEPT !.pc = "save_opportunity",
                                              !.data = <<>>]
    /\ ScanRest

\* "await self.db.save_opportunity(opportunity)" returns, or raises into
\* the except clause of the token loop, which moves on to the next token
ScanSaveOpportunity ==
    /\ scan.pc = "save_opportunity"
    /\ \/ scan' = NextToken([scan EXCEPT !.persisted =
                        Append(@, scan.opportunities[Len(scan.opportunities)])])
       \/ scan' = NextToken(scan)
    /\ ScanRest

\* the bot after construction, for either configured threshold, or with
\* the tight cap on the impact
ScanInit ==
    /\ IdleEngine
    /\ clock = 0
    /\ IdleLimiter
    /\ IdleCache
    /\ quote = IdleQuote
    /\ impact = NoImpact
    /\ scan \in {[IdleScan EXCEPT !.min_price_difference = m,
                                  !.max_price_impact = i] :
                   m \in MinPriceDifferences, i \in MaxPriceImpacts}
    /\ \/ scan.min_price_difference = IdleScan.min_price_difference
       \/ scan.max_price_impact = max_price_impact

ScanNext == FindArbitrageOpportunities \/ ScanGetPrice \/ ScanSaveOpportunity

ScanSpec == ScanInit /\ [][ScanNext]_vars

\* ======================================================== RateLimiter
\* "self.tokens = min(self.burst, self.tokens + elapsed * calls_per_second)"
refill(tokens, elapsed) ==
    Min(burst * TokenUnits,
        tokens + (elapsed * calls_per_second * TokenUnits) \div TicksPerSecond)

\* (mutant: the deficit is multiplied by the rate instead of divided)
wait_time_multiplied(tokens) ==
    ((TokenUnits - tokens) * calls_per_second * TicksPerSecond) \div TokenUnits

\* "sleep_time = (1 - self.tokens) / self.calls_per_second", in ticks
wait_time(tokens) ==
    ((TokenUnits - tokens) * TicksPerSecond) \div (calls_per_second * TokenUnits)

\* the bucket when the sleep is over.  arbitrage_bot.py: "self.tokens = 1",
\* last_update stays at the time before the sleep.  modules: the refill is
\* computed again from the time slept and last_update moves to now
tokens_after_sleep(l, t) ==
    IF l.impl = "arbitrage_bot"
    THEN TokenUnits
    ELSE refill(l.tokens, t - l.last_update)
last_update_after_sleep(l, t) ==
    IF l.impl = "arbitrage_bot" THEN l.last_update ELSE t

Acquired(start, slept, done) ==
    [start |-> start, sleep_time |-> slept, done |-> done]

\* modules: "wait_time = (tokens - self.tokens) / self.calls_per_second",
\* in ticks
wait_time_for(request, tokens) ==
    ((request * TokenUnits - tokens) * TicksPerSecond)
        \div (calls_per_second * TokenUnits)

\* acquire of n tokens up to its await (the lock is free: acquire calls
\* are served one at a time): refill, then either take the tokens and
\* return, or go to sleep.  The acquire of arbitrage_bot.py takes one token
Begin(n) ==
    /\ limiter.pc = "idle"
    /\ Len(acquisitions) < MaxAcquires
    /\ LET tokens == refill(limiter.tokens, clock - limiter.last_update)
       IN  IF tokens < n * TokenUnits
           THEN /\ limiter' = [limiter EXCEPT
                                 !.tokens = tokens, !.last_update = clock,
                                 !.pc = "sleeping", !.start = clock,
                                 !.request = n,
                                 !.sleep_time =
                                    IF limiter.impl = "arbitrage_bot"
                                    THEN wait_time(tokens)
                                    ELSE wait_time_for(n, tokens)]
                /\ UNCHANGED acquisitions
           ELSE /\ limiter' = [limiter EXCEPT
                                 !.tokens = tokens - n * TokenUnits,
                                 !.last_update = clock]
                /\ acquisitions' =
                       Append(acquisitions, Acquired(clock, 0, clock))
    /\ UNCHANGED <<execution_vars, tasks_vars, clock, cache_vars, quote, scan,
                   impact, acquirers>>

\* "await limiter.acquire()"
AcquireBegin == Begin(1)

\* asyncio.sleep returns, not before the time asked for; the token waited
\* for is taken and acquire returns
AcquireWake ==
    /\ limiter.pc = "sleeping"
    /\ clock >= limiter.start + limiter.sleep_time
    /\ limiter' = [limiter EXCEPT
                     !.tokens = tokens_after_sleep(limiter, clock)
                                   - limiter.request * TokenUnits,
                     !.last_update = last_update_after_sleep(limiter, clock),
                     !.pc = "idle", !.start = 0, !.sleep_time = 0,
                     !.request = 0]
    /\ acquisitions' =
           Append(acquisitions,
                  Acquired(limiter.start, limiter.sleep_time, clock))
    /\ UNCHANGED <<execution_vars, tasks_vars, clock, cache_vars, quote, scan,
                   impact, acquirers>>

\* time.time() advances
LimiterTick ==
    /\ clock < MaxClock
    /\ clock' = clock + 1
    /\ UNCHANGED <<execution_vars, tasks_vars, limiter_vars, cache_vars, quote, scan,
                   impact>>

\* either RateLimiter class, freshly constructed
LimiterInit ==
    /\ IdleEngine
    /\ clock = 0
    /\ limiter \in {NewLimiter(impl) : impl \in LimiterImpls}
    /\ acquisitions = <<>>
    /\ acquirers = NoAcquirers
    /\ IdleCache
    /\ IdleScanner

LimiterNext == AcquireBegin \/ AcquireWake \/ LimiterTick

LimiterSpec == LimiterInit /\ [][LimiterNext]_vars

\* the sizes of the requests: arbitrage_bot.py's acquire takes one token,
\* the acquire of modules any number, here up to one more than the bucket
\* holds (MultiRateLimiter.acquire passes its caller's number on)
Requests(impl) == IF impl = "arbitrage_bot" THEN {1} ELSE 1..(burst + 1)

\* "await limiter.acquire(tokens)"
AcquireTokens == \E n \in Requests(limiter.impl) : Begin(n)

SizedNext == AcquireTokens \/ AcquireWake \/ LimiterTick

SizedSpec == LimiterInit /\ [][SizedNext]_vars

\* ------------------------------------------- concurrent acquire calls
\* several tasks call acquire() on one limiter.  A task runs from one
\* await to the next without interruption: entering "async with
\* self.lock" suspends it only when the lock is not free, and inside the
\* lock only asyncio.sleep suspends it.  The calls that have returned are
\* recorded, by their tasks, in acquirers.served.

\* (mutant: the lock is taken whenever nobody holds it)
lock_free_barging(a) == ~a.locked

\* asyncio.Lock.acquire: "if not self._locked and all(w.cancelled() for w
\* in self._waiters)": the lock is taken at once only when nobody holds it
\* and nobody waits for it
lock_free(a) == ~a.locked /\ a.waiters = <<>>

\* the end of "async with self.lock": Lock.release clears _locked and wakes
\* the first waiter, which stays in _waiters until it runs
Released(p, a) ==
    [a EXCEPT !.locked = FALSE, !.call[p] = IdleAcquire,
              !.served = Append(@, p)]

\* task p, holding the lock, runs acquire up to its await: refill, then
\* either take a token and release the lock, or go to sleep with the lock
\* held
Holding(p, a) ==
    LET tokens == refill(limiter.tokens, clock - limiter.last_update)
    IN  IF tokens < TokenUnits
        THEN /\ limiter' = [limiter EXCEPT !.tokens = tokens,
                                           !.last_update = clock]
             /\ acquirers' =
                  [a EXCEPT !.call[p] =
                     [pc |-> "sleeping", start |-> clock,
                      sleep_time |-> wait_time(tokens)]]
        ELSE /\ limiter' = [limiter EXCEPT !.tokens = tokens - TokenUnits,
                                           !.last_update = clock]
             /\ acquirers' = Released(p, a)

ConcLimiterRest ==
    UNCHANGED <<execution_vars, tasks_vars, clock, cache_vars, quote, scan,
                impact, acquisitions>>

\* task p calls acquire(): "async with self.lock"
LockRequest(p) ==
    /\ acquirers.call[p].pc = "idle"
    /\ Len(acquirers.requested) < MaxAcquires
    /\ LET a == [acquirers EXCEPT !.requested = Append(@, p)]
       IN  IF lock_free(a)
           THEN Holding(p, [a EXCEPT !.locked = TRUE])
           ELSE /\ acquirers' = [a EXCEPT !.waiters = Append(@, p),
                                          !.call[p].pc = "waiting"]
                /\ UNCHANGED limiter
    /\ ConcLimiterRest

\* the first waiter, woken by release, runs: it leaves _waiters and sets
\* _locked
LockGranted(p) ==
    /\ acquirers.call[p].pc = "waiting"
    /\ ~acquirers.locked
    /\ Head(acquirers.waiters) = p
    /\ Holding(p, [acquirers EXCEPT !.locked = TRUE, !.waiters = Tail(@)])
    /\ ConcLimiterRest

\* asyncio.sleep returns to task p, not before the time asked for; the
\* token waited for is taken and the lock released
SleepOver(p) ==
    /\ acquirers.call[p].pc = "sleeping"
    /\ clock >= acquirers.call[p].start + acquirers.call[p].sleep_time
    /\ limiter' = [limiter EXCEPT
                     !.tokens = tokens_after_sleep(limiter, clock) - TokenUnits,
                     !.last_update = last_update_after_sleep(limiter, clock)]
    /\ acquirers' = Released(p, acquirers)
    /\ ConcLimiterRest

ConcLimiterNext ==
    \/ \E p \in Callers : LockRequest(p)
    \/ \E p \in Callers : LockGranted(p)
    \/ \E p \in Callers : SleepOver(p)
    \/ LimiterTick

ConcLimiterSpec == LimiterInit /\ [][ConcLimiterNext]_vars

\* ========================================================= PriceCache
\* keys and values of the cache operations exercised: f"{dex}_{mint}" and
\* (price, liquidity); prices in thousandths of a dollar
CacheKeys == {"jupiter_A", "raydium_A", "orca_A"}
CacheValues == { <<1000, 50000>>, <<1020, 50000>> }

Entry(key, value, timestamp) ==
    [key |-> key, value |-> value, timestamp |-> timestamp]
\* the position of key in the dict, 0 when absent
Position(cache, key) ==
    IF \E n \in 1..Len(cache) : cache[n].key = key
    THEN CHOOSE n \in 1..Len(cache) : cache[n].key = key
    ELSE 0
\* "del self.cache[key]"
Delete(cache, key) == LET other(e) == e.key # key IN SelectSeq(cache, other)
\* "self.cache[key] = (value, time.time())": a new key goes to the end,
\* a key already present keeps its place
Assign(cache, key, value, t) ==
    IF Position(cache, key) = 0
    THEN Append(cache, Entry(key, value, t))
    ELSE [cache EXCEPT ![Position(cache, key)] = Entry(key, value, t)]
\* "self.cache.move_to_end(key)"
MoveToEnd(cache, key) ==
    Append(Delete(cache, key), cache[Position(cache, key)])
KeysOf(cache) == {cache[n].key : n \in 1..Len(cache)}

\* (mutant: an entry is still served at the very end of its time to live)
fresh_inclusive(timestamp, t) == t - timestamp <= ttl

\* "time.time() - timestamp < self.ttl"
fresh(timestamp, t) == t - timestamp < ttl

\* key has just been used: it becomes the most recently used one
Used(recency, key) ==
    LET other(k) == k # key IN Append(SelectSeq(recency, other), key)
Unused(recency, keys) ==
    LET kept(k) == k \notin keys IN SelectSeq(recency, kept)

\* PriceCache.get: the value of a fresh entry (moved to the end by the
\* size-limited cache); an expired entry is deleted
get(key) ==
    LET c == price_cache.cache
        n == Position(c, key)
    IN  IF n # 0 /\ fresh(c[n].timestamp, clock)
        THEN /\ price_cache' =
                  [price_cache EXCEPT
                     !.cache = IF price_cache.impl = "modules"
                               THEN MoveToEnd(c, key) ELSE c]
             /\ cache_call' =
                  [op |-> "get", key |-> Some(key),
                   result |-> Some(c[n].value), evicted |-> {},
                   recency |-> Used(cache_call.recency, key)]
        ELSE /\ price_cache' = [price_cache EXCEPT !.cache = Delete(c, key)]
             /\ cache_call' =
                  [op |-> "get", key |-> Some(key), result |-> None,
                   evicted |-> IF n # 0 THEN {key} ELSE {},
                   recency |-> Unused(cache_call.recency, {key})]

\* (mutant: popitem() without last=False drops the newest entry)
popitems_last(cache) ==
    IF Len(cache) >= max_size THEN SubSeq(cache, 1, max_size - 1) ELSE cache

\* "while len(self.cache) >= self.max_size: self.cache.popitem(last=False)"
popitems(cache) ==
    IF Len(cache) >= max_size
    THEN SubSeq(cache, Len(cache) - max_size + 2, Len(cache))
    ELSE cache

\* PriceCache.set: the size-limited cache first makes room, and moves the
\* key written to the end
set(key, value) ==
    LET c == price_cache.cache
        room == IF price_cache.impl = "modules" THEN popitems(c) ELSE c
        written == Assign(room, key, value, clock)
        gone == KeysOf(c) \ KeysOf(written)
    IN  /\ price_cache' =
             [price_cache EXCEPT
                !.cache = IF price_cache.impl = "modules"
                          THEN MoveToEnd(written, key) ELSE written]
        /\ cache_call' =
             [op |-> "set", key |-> Some(key), result |-> None,
              evicted |-> gone,
              recency |-> Used(Unused(cache_call.recency, gone), key)]

\* PriceCache.clear_expired: every entry with age >= ttl is deleted
clear_expired ==
    LET c == price_cache.cache
        live(e) == ~(clock - e.timestamp >= ttl)
        gone == KeysOf(c) \ KeysOf(SelectSeq(c, live))
    IN  /\ price_cache' = [price_cache EXCEPT !.cache = SelectSeq(c, live)]
        /\ cache_call' =
             [op |-> "clear_expired", key |-> None, result |-> None,
              evicted |-> gone,
              recency |-> Unused(cache_call.recency, gone)]

CacheRest == UNCHANGED <<execution_vars, tasks_vars, clock, limiter_vars, quote, scan,
                         impact>>
CacheGet == (\E key \in CacheKeys : get(key)) /\ CacheRest
CacheSet ==
    (\E key \in CacheKeys : \E value \in CacheValues : set(key, value))
    /\ CacheRest
CacheClearExpired == clear_expired /\ CacheRest

\* time.time() advances
CacheTick ==
    /\ clock < MaxCacheClock
    /\ clock' = clock + 1
    /\ UNCHANGED <<execution_vars, tasks_vars, limiter_vars, cache_vars, quote, scan,
                   impact>>

\* either PriceCache class, freshly constructed
CacheInit ==
    /\ IdleEngine
    /\ clock = 0
    /\ IdleLimiter
    /\ price_cache \in {NewCache(impl) : impl \in CacheImpls}
    /\ cache_call = NoCacheCall
    /\ IdleScanner

CacheNext == CacheGet \/ CacheSet \/ CacheClearExpired \/ CacheTick

CacheSpec == CacheInit /\ [][CacheNext]_vars

\* ===================================================== get_<dex>_price
\* the venues whose lookups are exercised: Jupiter's quote API and the
\* DexScreener lookup for Raydium (get_orca_price and get_meteora_price
\* are copies of the latter with another dexId)
QuoteDex == {"jupiter", "raydium"}
\* cache_key = f"{dex}_{token.mint}", for the one token A
cache_key(dex) == IF dex = "jupiter" THEN "jupiter_A" ELSE "raydium_A"
\* Token.min_liquidity of token A (the default of _load_tokens)
min_liquidity == 10000

\* what the external lookup can produce: an exception of the HTTP client
\* (network error, timeout), a status other than 200, a body that cannot be
\* parsed, a body without a pair of the venue, or a price and a liquidity
Failures == {"error", "status", "malformed"}
Responses ==
    {[NoResponse EXCEPT !.kind = k] : k \in Failures \cup {"no_pairs"}} \cup
    {[kind |-> "ok", price |-> p, liquidity |-> l] :
       p \in {0, 1000}, l \in {min_liquidity \div 2, min_liquidity,
                               5 * min_liquidity}}
ResponsesOf(dex) ==
    IF dex = "jupiter" THEN {r \in Responses : r.kind # "no_pairs"}
    ELSE Responses

\* (mutant: a status other than 200 is answered with an empty quote)
parse_jupiter_defaulting(r) ==
    IF r.kind = "ok" THEN Some(<<r.price, r.liquidity>>)
    ELSE IF r.kind = "status" THEN Some(<<0, 0>>)
    ELSE None

\* get_jupiter_price, lines 522-558: None for a status other than 200 and
\* for any exception, else (price, total_liquidity) as parsed
parse_jupiter(r) ==
    IF r.kind = "ok" THEN Some(<<r.price, r.liquidity>>) ELSE None

\* get_raydium_price, lines 569-612: None for a status other than 200, for
\* any exception and without a Raydium pair; the pair's price and liquidity
\* "if price > 0 and liquidity > token.min_liquidity", else None
parse_raydium(r) ==
    IF r.kind = "ok" /\ r.price > 0 /\ r.liquidity > min_liquidity
    THEN Some(<<r.price, r.liquidity>>)
    ELSE None

parse(dex, r) == IF dex = "jupiter" THEN parse_jupiter(r) ELSE parse_raydium(r)

QuoteRest == UNCHANGED <<execution_vars, tasks_vars, clock, limiter_vars, scan, impact>>

\* get_<dex>_price up to its first await: a fresh cache entry is returned
\* as it is, otherwise a token of the venue's rate limiter is awaited
GetPrice ==
    /\ quote.pc \in {"idle", "returned"}
    /\ \E dex \in QuoteDex :
         /\ get(cache_key(dex))
         /\ quote' = IF cache_call'.result # None
                     THEN [pc |-> "returned", dex |-> dex,
                           result |-> cache_call'.result,
                           response |-> NoResponse]
                     ELSE [pc |-> "acquire", dex |-> dex, result |-> None,
                           response |-> NoResponse]
    /\ QuoteRest

\* "await self.rate_limiters[...].acquire()" returns
QuoteAcquired ==
    /\ quote.pc = "acquire"
    /\ quote' = [quote EXCEPT !.pc = "request"]
    /\ UNCHANGED cache_vars
    /\ QuoteRest

\* the external lookup is over: the response is parsed inside the try
\* block, a quote is cached and returned, anything else gives None
QuoteResponded(r) ==
    LET result == parse(quote.dex, r)
    IN  /\ IF result # None
           THEN set(cache_key(quote.dex), Val(result))
           ELSE UNCHANGED cache_vars
        /\ quote' = [quote EXCEPT !.pc = "returned", !.result = result,
                                  !.response = r]
QuoteResponse ==
    /\ quote.pc = "request"
    /\ \E r \in ResponsesOf(quote.dex) : QuoteResponded(r)
    /\ QuoteRest

\* the monitor task is the only caller of the price lookups; the health
\* check task clears expired entries in between, and time passes
QuoteNext ==
    \/ GetPrice
    \/ QuoteAcquired
    \/ QuoteResponse
    \/ CacheClearExpired
    \/ CacheTick

\* the bot after construction, its cache empty
QuoteInit == IdleEngine /\ Components

QuoteSpec == QuoteInit /\ [][QuoteNext]_vars

\* ============================================ Reverify and the cache
\* execute_arbitrage with its two price lookups spelled out: Reverify
\* calls the same get_jupiter_price and get_raydium_price as the scan that
\* precedes it in the monitor task, on the same PriceCache.

\* the opportunities executed: $50 for $1 between Jupiter and Raydium,
\* either way round, not about to expire
ReverifyOpportunity ==
    { o \in ArbitrageOpportunity :
        /\ o.size_usd = 50 * USD /\ o.expected_profit = USD
        /\ {o.buy_dex, o.sell_dex} = {"jupiter", "raydium"}
        /\ o.expires_at = MaxTime + 1 }
\* what the venues answer in the meantime: a failure, or 1.000 or 1.020
\* with ample liquidity
ReverifyResponses ==
    {[NoResponse EXCEPT !.kind = "error"]} \cup
    {[kind |-> "ok", price |-> p, liquidity |-> 5 * min_liquidity] :
       p \in {1000, 1020}}
\* the price of a quote (price, liquidity), in the units of the engine
FreshData(result) ==
    IF result = None THEN None ELSE Some(Val(result)[1] * MILLI)

\* the lookup that call p is waiting for, and its return to the call
ReverifyDex(p) ==
    IF call[p].pc = "get_jupiter_price" THEN "jupiter" ELSE "raydium"
GotPrice(p, c, dex, q) ==
    IF dex = "jupiter" THEN GotJupiterPrice(p, c, q)
    ELSE GotRaydiumPrice(p, c, q)

ReverifyRest ==
    UNCHANGED <<use_jito, now, execution_lock, lock_waiters, trades, clock,
                limiter_vars, scan, impact, tasks_vars>>

\* the scan's lookups, before execute_arbitrage is called
ScanLookup ==
    /\ call[1].pc = "idle"
    /\ \/ GetPrice
       \/ QuoteAcquired
       \/ quote.pc = "request" /\ QuoteRest
          /\ \E r \in ReverifyResponses : QuoteResponded(r)

\* the monitor task calls execute_arbitrage after its scan
ReverifyCall(p) ==
    /\ quote.pc \in {"idle", "returned"}
    /\ \E o \in ReverifyOpportunity : Call(p, o)

\* Reverify calls get_<dex>_price: "cached = self.price_cache.get(...)",
\* "if cached: return cached" hands the cache entry to Reverify without
\* any await; otherwise the venue's rate limiter is awaited
ReverifyGetPrice(p) ==
    /\ call[p].pc \in ReverifyPcs
    /\ quote.pc \in {"idle", "returned"}
    /\ get(cache_key(ReverifyDex(p)))
    /\ IF cache_call'.result # None
       THEN /\ quote' = [pc |-> "returned", dex |-> ReverifyDex(p),
                         result |-> cache_call'.result,
                         response |-> NoResponse]
            /\ GotPrice(p, [call[p] EXCEPT
                              !.cached = @ \cup {ReverifyDex(p)}],
                        ReverifyDex(p), FreshData(cache_call'.result))
       ELSE /\ quote' = [pc |-> "acquire", dex |-> ReverifyDex(p),
                         result |-> None, response |-> NoResponse]
            /\ UNCHANGED <<call, daily_loss>>
    /\ ReverifyRest

ReverifyAcquired(p) ==
    /\ call[p].pc \in ReverifyPcs
    /\ QuoteAcquired

\* the external lookup made for Reverify is over
ReverifyResponse(p) ==
    /\ call[p].pc \in ReverifyPcs
    /\ quote.pc = "request"
    /\ \E r \in ReverifyResponses :
         /\ QuoteResponded(r)
         /\ GotPrice(p, Net(call[p], "quote"), quote.dex,
                     FreshData(parse(quote.dex, r)))
    /\ ReverifyRest

\* the steps of call p after Reverify
AfterReverify(p) ==
    /\ call[p].pc \notin ReverifyPcs
    /\ Locked(p)

\* the monitor task scans and executes; the health check task clears the
\* cache in between, and time passes
ReverifyNext ==
    \/ ScanLookup
    \/ ReverifyCall(1)
    \/ ReverifyGetPrice(1)
    \/ ReverifyAcquired(1)
    \/ ReverifyResponse(1)
    \/ AfterReverify(1)
    \/ CacheClearExpired
    \/ CacheTick

ReverifyInit == IdleEngine /\ Components

ReverifySpec == ReverifyInit /\ [][ReverifyNext]_vars

\* ======================================================= health_check
\* the task that start() creates next to the monitor task: every minute it
\* probes the RPC node, rolls the daily loss over and clears the cache.
\* Between its awaits the engine executes and the price lookups of the
\* monitor task write the cache.

\* "if datetime.utcnow().date() > self.last_loss_reset.date():"
new_day(date, anchor) == date > anchor

HealthRest ==
    UNCHANGED <<use_jito, now, execution_lock, lock_waiters, call, trades,
                clock, limiter_vars, quote, scan, impact, running, today,
                monitor>>

\* the loop test "while self.running" and, inside the try block, the rate
\* limiter of the RPC node up to "await self.client.get_block_height()"
HealthWake ==
    /\ health.pc \in {"start", "sleep"}
    /\ health' = [health EXCEPT !.pc = IF running THEN "get_block_height"
                                       ELSE "done"]
    /\ UNCHANGED <<daily_loss, last_loss_reset, cache_vars>>
    /\ HealthRest

\* "except Exception as e: logger.error(...)", then "asyncio.sleep(60)"
HealthFailed ==
    /\ health' = [health EXCEPT !.pc = "sleep", !.tick = "failed"]
    /\ UNCHANGED <<daily_loss, last_loss_reset, cache_vars>>

\* get_block_height returns or raises
HealthGetBlockHeight ==
    /\ health.pc = "get_block_height"
    /\ \/ /\ health' = [health EXCEPT !.pc = "get_balance"]
          /\ UNCHANGED <<daily_loss, last_loss_reset, cache_vars>>
       \/ HealthFailed
    /\ HealthRest

\* get_balance returns or raises; after it the daily loss is rolled over
\* when the date has changed and the expired cache entries are cleared
HealthGetBalance ==
    /\ health.pc = "get_balance"
    /\ \/ /\ IF new_day(today, last_loss_reset)
             THEN daily_loss' = 0 /\ last_loss_reset' = today
             ELSE UNCHANGED <<daily_loss, last_loss_reset>>
          /\ clear_expired
          /\ health' = [health EXCEPT !.pc = "sleep", !.tick = "ok"]
       \/ HealthFailed
    /\ HealthRest

\* midnight (UTC) passes
Midnight ==
    /\ today < MaxDays
    /\ today' = today + 1
    /\ UNCHANGED <<execution_vars, clock, limiter_vars, cache_vars, quote,
                   scan, impact, running, last_loss_reset, health, monitor>>

\* signal_handler: "self.running = False"
Shutdown ==
    /\ running
    /\ running' = FALSE
    /\ UNCHANGED <<execution_vars, clock, limiter_vars, cache_vars, quote,
                   scan, impact, today, last_loss_reset, health, monitor>>

\* a price lookup of the monitor task caches the quote it has fetched
LookupCached ==
    /\ set(cache_key("jupiter"), <<1000, 50000>>)
    /\ CacheRest

\* start() has set running and created the tasks; the engine has no loss
\* on its books yet
HealthInit ==
    /\ Components
    /\ use_jito \in BOOLEAN
    /\ now = 0
    /\ daily_loss = 0
    /\ execution_lock = 0
    /\ lock_waiters = <<>>
    /\ call = [p \in Calls |-> IdleCall]
    /\ trades = [p \in Calls |-> <<>>]
    /\ running = TRUE
    /\ today = 0
    /\ last_loss_reset = 0
    /\ health = [IdleHealth EXCEPT !.pc = "start"]
    /\ monitor = IdleMonitor

HealthNext ==
    \/ HealthWake
    \/ HealthGetBlockHeight
    \/ HealthGetBalance
    \/ Midnight
    \/ Shutdown
    \/ \E o \in ConcurrentOpportunity : Call(1, o)
    \/ Locked(1)
    \/ LookupCached
    \/ CacheTick

HealthSpec == HealthInit /\ [][HealthNext]_vars

\* ======================================================= monitor_loop
\* the task that scans and executes, cycle after cycle.  One cycle is one
\* pass through the body of "while self.running".  The scan and the
\* execution are the subject of the sections above; here each is one await
\* of the loop: find_arbitrage_opportunities catches what its lookups raise
\* and returns a list; get_usdc_balance returns 0.0 when the RPC node fails
\* it; check_and_rebalance_usdc returns a bool; the executions are gathered
\* with return_exceptions=True.  The one statement of the body that raises
\* is the division of the price log.

\* "if consecutive_errors > 5:"
max_consecutive_errors == 5
\* "if checks_count % 10 == 0:"
price_log_period == 10
\* what a lookup of the price log returns: nothing, or a price (thousandths
\* of a dollar; an outAmount of 0 gives the price 0)
LoggedPrices == {None, Some(0), Some(1000)}

\* "if consecutive_errors > 5:"
too_many_errors(consecutive_errors) ==
    consecutive_errors > max_consecutive_errors

MonitorRest ==
    UNCHANGED <<execution_vars, clock, limiter_vars, cache_vars, quote, scan,
                impact, running, today, last_loss_reset, health>>

\* the end of the try block: "consecutive_errors = 0"
CycleDone(m) ==
    [m EXCEPT !.pc = "sleep", !.consecutive_errors = 0, !.failed_run = 0,
              !.ended = "ok"]

\* (mutant: the handler is missing and the exception leaves the loop)
CycleFailed_unhandled(m) == [m EXCEPT !.pc = "crashed", !.ended = "failed"]

\* "except Exception as e: consecutive_errors += 1" and the test that
\* follows it
CycleFailed(m) ==
    [m EXCEPT !.pc = IF too_many_errors(m.consecutive_errors + 1)
                     THEN "cooldown" ELSE "sleep",
              !.consecutive_errors = @ + 1,
              !.failed_run = @ + 1,
              !.ended = "failed"]

\* "usdc_balance = await self.get_usdc_balance()" before the loop
MonitorStart ==
    /\ monitor.pc = "start"
    /\ monitor' = [monitor EXCEPT !.pc = "loop"]
    /\ MonitorRest

\* "while self.running:", "checks_count += 1"
MonitorLoop ==
    /\ monitor.pc = "loop"
    /\ monitor' =
         IF running
         THEN [monitor EXCEPT !.pc = "find",
                  !.checks_count = (@ + 1) % price_log_period]
         ELSE [monitor EXCEPT !.pc = "done"]
    /\ MonitorRest

\* "opportunities = await self.find_arbitrage_opportunities()": with
\* opportunities the balance is looked at next; without, the prices are
\* logged every tenth check and the cycle is over otherwise
FindOpportunities(counts) ==
    /\ monitor.pc = "find"
    /\ \E n \in counts :
         LET m == [monitor EXCEPT !.opportunities = Some(n)]
         IN monitor' =
              IF n > 0 THEN [m EXCEPT !.pc = "get_usdc_balance"]
              ELSE IF m.checks_count % price_log_period = 0
                   THEN [m EXCEPT !.pc = "log_prices"]
                   ELSE CycleDone(m)
    /\ MonitorRest

MonitorFind == FindOpportunities(0..1)

\* "usdc_balance = await self.get_usdc_balance()", "if usdc_balance < 10:"
MonitorGetUsdcBalance ==
    /\ monitor.pc = "get_usdc_balance"
    /\ \E low \in BOOLEAN :
         monitor' = [monitor EXCEPT !.pc = IF low THEN "rebalance"
                                            ELSE "gather"]
    /\ MonitorRest

\* "rebalanced = await self.check_and_rebalance_usdc(...)"; when it is
\* False the cycle sleeps 30 seconds
MonitorRebalance ==
    /\ monitor.pc = "rebalance"
    /\ \E rebalanced \in BOOLEAN :
         monitor' = [monitor EXCEPT !.pc = IF rebalanced THEN "gather"
                                            ELSE "skip"]
    /\ MonitorRest

\* the sleep of the skipped cycle is over: "continue".  No error has
\* occurred in this cycle
MonitorSkip ==
    /\ monitor.pc = "skip"
    /\ monitor' = [monitor EXCEPT !.pc = "loop", !.failed_run = 0,
                                  !.ended = "skipped"]
    /\ MonitorRest

\* the executions of the top opportunity have been gathered
MonitorGather ==
    /\ monitor.pc = "gather"
    /\ monitor' = CycleDone(monitor)
    /\ MonitorRest

\* the price log of a cycle without opportunities: "diff_pct =
\* abs(j_price - r_price) / min(j_price, r_price) * 100" raises when the
\* lower price is 0
MonitorLogPrices ==
    /\ monitor.pc = "log_prices"
    /\ \E jupiter_data \in LoggedPrices : \E raydium_data \in LoggedPrices :
         monitor' =
           IF /\ jupiter_data # None /\ raydium_data # None
              /\ Min(Val(jupiter_data), Val(raydium_data)) = 0
           THEN CycleFailed(monitor)
           ELSE CycleDone(monitor)
    /\ MonitorRest

\* "await asyncio.sleep(30)" of the handler is over:
\* "consecutive_errors = 0"
MonitorCooldown ==
    /\ monitor.pc = "cooldown"
    /\ monitor' = [monitor EXCEPT !.pc = "sleep", !.consecutive_errors = 0,
                                  !.failed_run = 0, !.ended = "paused"]
    /\ MonitorRest

\* the code after the try statement, "if len(opportunities) == 0:" and
\* "await asyncio.sleep(sleep_time)": a name never bound ends the task
MonitorSleep ==
    /\ monitor.pc = "sleep"
    /\ monitor' = [monitor EXCEPT !.pc = IF monitor.opportunities = None
                                        THEN "crashed" ELSE "loop"]
    /\ MonitorRest

\* start() has set running and created the tasks
MonitorInit ==
    /\ Components
    /\ use_jito = FALSE
    /\ now = 0
    /\ daily_loss = 0
    /\ execution_lock = 0
    /\ lock_waiters = <<>>
    /\ call = [p \in Calls |-> IdleCall]
    /\ trades = [p \in Calls |-> <<>>]
    /\ running = TRUE
    /\ today = 0
    /\ last_loss_reset = 0
    /\ health = IdleHealth
    /\ monitor = [IdleMonitor EXCEPT !.pc = "start"]

\* the steps of the monitor task
MonitorStep ==
    \/ MonitorStart
    \/ MonitorLoop
    \/ MonitorFind
    \/ MonitorGetUsdcBalance
    \/ MonitorRebalance
    \/ MonitorSkip
    \/ MonitorGather
    \/ MonitorLogPrices
    \/ MonitorCooldown
    \/ MonitorSleep

MonitorNext == MonitorStep \/ Shutdown

MonitorSpec == MonitorInit /\ [][MonitorNext]_vars

\* the event loop resumes the task whenever the call or the sleep it
\* awaits is over, and each of these ends
MonitorFairSpec == MonitorSpec /\ WF_vars(MonitorStep)

\* ------------------------------------------------ the bot as started
\* start(): the monitor task, whose cycles execute the top opportunity
\* they find, beside the health task, until the signal handler clears
\* running.  The market offers opportunities until MaxExecutions of them
\* have been executed.
\* "tasks.append(self.execute_arbitrage(opp))", "await asyncio.gather(...)":
\* the call runs in the monitor task up to its first suspension
ExecuteTop ==
    /\ monitor.pc = "gather"
    /\ call[1].pc = "idle"
    /\ \E o \in ConcurrentOpportunity : Call(1, o)

\* gather has the result or the exception of the call: the cycle is over
Gathered ==
    /\ monitor.pc = "gather"
    /\ call[1].pc \in {"returned", "raised"}
    /\ monitor' = CycleDone([monitor EXCEPT !.executed = @ + 1])
    /\ call' = [call EXCEPT ![1] = IdleCall]
    /\ UNCHANGED <<use_jito, now, daily_loss, execution_lock, lock_waiters,
                   trades, clock, limiter_vars, cache_vars, quote, scan,
                   impact, running, today, last_loss_reset, health>>

StartedFind ==
    FindOpportunities(IF monitor.executed < MaxExecutions THEN 0..1 ELSE {0})

\* the steps of the monitor task, the execution it awaits included
StartedMonitor ==
    \/ MonitorStart
    \/ MonitorLoop
    \/ StartedFind
    \/ MonitorGetUsdcBalance
    \/ MonitorRebalance
    \/ MonitorSkip
    \/ ExecuteTop
    \/ Locked(1)
    \/ Gathered
    \/ MonitorLogPrices
    \/ MonitorCooldown
    \/ MonitorSleep

\* the steps of the health task
StartedHealth ==
    \/ HealthWake
    \/ HealthGetBlockHeight
    \/ HealthGetBalance

StartedInit ==
    /\ Components
    /\ use_jito \in BOOLEAN
    /\ now = 0
    /\ daily_loss = 0
    /\ execution_lock = 0
    /\ lock_waiters = <<>>
    /\ call = [p \in Calls |-> IdleCall]
    /\ trades = [p \in Calls |-> <<>>]
    /\ running = TRUE
    /\ today = 0
    /\ last_loss_reset = 0
    /\ health = [IdleHealth EXCEPT !.pc = "start"]
    /\ monitor = [IdleMonitor EXCEPT !.pc = "start"]

StartedNext == StartedMonitor \/ StartedHealth \/ Shutdown

\* the event loop resumes each task whenever what it awaits is over, and
\* every network call and sleep awaited returns or times out
StartedSpec ==
    /\ StartedInit
    /\ [][StartedNext]_vars
    /\ WF_vars(StartedMonitor)
    /\ WF_vars(StartedHealth)

\* ================================================================ claims
\* positions of a call that holds the execution lock
LockedPcs ==
    {"get_jupiter_price", "get_raydium_price", "get_balance",
     "get_usdc_balance", "jito_build_buy", "jito_build_sell",
     "build_bundle_transactions", "send_bundle",
     "wait_for_bundle_confirmation", "build_buy", "send_buy", "poll_buy",
     "build_sell", "verify_balance", "rebuild_sell", "send_sell",
     "final_balance", "log_prices", "save_trade"}
InLock(p) == call[p].pc \in LockedPcs
\* the call is over, one way or the other
Over(p) == call[p].pc \in {"returned", "raised"}

\* C1: no two calls are at the same time between acquiring the execution
\* lock and the end of Settle, and the lock names the one call that is.
C1_MutualExclusion ==
    /\ \A p, q \in Calls : InLock(p) /\ InLock(q) => p = q
    /\ \A p \in Calls : InLock(p) <=> execution_lock = p
\* a call is sending its sell leg while another one waits for the lock
C1_Witness ==
    \E p, q \in Calls : /\ call[p].pc = "send_sell"
                        /\ call[q].pc = "wait_lock"
                        /\ execution_lock = p

\* C2 as stated: every call made while daily_loss >= max_daily_loss returns
\* at once a failed TradeResult with the risk-limit error, without any
\* external call and without changing daily_loss; made while daily_loss <
\* max_daily_loss it is not rejected by the risk check.
C2_RiskLimitError ==
    [][\A p \in Calls : \A o \in ArbitrageOpportunity :
         Call(p, o) =>
           IF daily_loss >= max_daily_loss
           THEN /\ call'[p].pc = "returned"
                /\ call'[p].result.success = FALSE
                /\ call'[p].result.error = "Daily loss limit reached"
                /\ call'[p].net = {}
                /\ daily_loss' = daily_loss
           ELSE call'[p].result.error # "Daily loss limit reached"]_vars
\* C2 as amended: every call made while daily_loss >= max_daily_loss returns
\* at once a failed TradeResult, without any external call, without the
\* lock and without changing daily_loss; its error is the risk-limit error
\* when the opportunity has not expired and the expired error otherwise.
\* A call made while daily_loss < max_daily_loss is not rejected by the
\* risk check, and goes on to the lock when its opportunity has not expired.
C2_RiskCheck ==
    [][\A p \in Calls : \A o \in ArbitrageOpportunity :
         Call(p, o) =>
           IF daily_loss >= max_daily_loss
           THEN /\ call'[p].pc = "returned"
                /\ call'[p].result.success = FALSE
                /\ call'[p].result.error =
                       IF now < o.expires_at THEN "Daily loss limit reached"
                                             ELSE "Opportunity expired"
                /\ call'[p].result.buy_tx = "None"
                /\ call'[p].result.sell_tx = "None"
                /\ call'[p].net = {}
                /\ daily_loss' = daily_loss
                /\ execution_lock' = execution_lock
           ELSE /\ call'[p].result.error # "Daily loss limit reached"
                /\ (now < o.expires_at => call'[p].pc # "returned")]_vars
\* a call on a valid opportunity was rejected at the daily loss limit
C2_Witness ==
    \E p \in Calls : /\ call[p].pc = "returned"
                     /\ call[p].result.error = "Daily loss limit reached"
                     /\ daily_loss >= max_daily_loss
                     /\ call[p].net = {}

\* C3: a call on an opportunity whose expires_at is not later than the
\* current time returns at once a failed TradeResult with the expired
\* error, without any external call and without changing daily_loss.
C3_Expired ==
    [][\A p \in Calls : \A o \in ArbitrageOpportunity :
         Call(p, o) /\ o.expires_at <= now =>
           /\ call'[p].pc = "returned"
           /\ call'[p].result.success = FALSE
           /\ call'[p].result.error = "Opportunity expired"
           /\ call'[p].result.buy_tx = "None"
           /\ call'[p].result.sell_tx = "None"
           /\ call'[p].net = {}
           /\ daily_loss' = daily_loss
           /\ execution_lock' = execution_lock]_vars
\* a call was rejected as expired, with no loss on the books
C3_Witness ==
    \E p \in Calls : /\ call[p].pc = "returned"
                     /\ call[p].result.error = "Opportunity expired"
                     /\ call[p].net = {}
                     /\ daily_loss = 0

\* C4: no call to execute ever ends by raising to its caller.
C4_NeverRaises == \A p \in Calls : call[p].pc # "raised"

\* C5: every TradeResult that execute returned has been appended to the
\* trades table exactly once.
C5_ReturnedIsPersisted ==
    \A p \in Calls :
      call[p].pc = "returned" =>
        /\ call[p].saved = 1
        /\ trades[p] = <<call[p].result>>

\* C6: a completed execution with realized profit pr (both sequential legs
\* sent, or a confirmed bundle) has added |pr| to daily_loss when pr < 0
\* and nothing when pr >= 0.
C6_LossMatchesProfit ==
    \A p \in Calls :
      call[p].result.success =>
        call[p].loss = IF Val(call[p].result.actual_profit) < 0
                       THEN - Val(call[p].result.actual_profit)
                       ELSE 0

\* C7: an exception raised between acquiring the lock and Settle yields a
\* failed TradeResult whose error is the captured message, and the call
\* adds the fixed assumed loss to daily_loss exactly once; a failed result
\* built inside the lock comes from no other place.
C7_ExceptionHandled ==
    \A p \in Calls :
      /\ call[p].raised # "None" =>
           /\ call[p].result.success = FALSE
           /\ call[p].result.error = call[p].raised
           /\ call[p].loss = AssumedLoss
      /\ call[p].pc = "save_trade" /\ ~call[p].result.success =>
           call[p].raised # "None"
\* the sell leg raised after the buy leg was seen confirmed
C7_Witness ==
    \E p \in Calls : /\ call[p].pc = "save_trade"
                     /\ call[p].buy_seen
                     /\ call[p].raised \in RpcErrors
                     /\ call[p].result.error \in RpcErrors
                     /\ daily_loss >= AssumedLoss

\* C8: an execution that aborts before any transaction or bundle is
\* submitted adds nothing to daily_loss.
C8_AbortWithoutLoss ==
    \A p \in Calls :
      call[p].raised # "None" /\ call[p].net \cap {"send", "bundle"} = {} =>
        call[p].loss = 0

\* C9: the TradeResult of a failure after the buy leg was seen confirmed
\* differs from the TradeResult of every failure in which no buy
\* transaction was submitted.
C9_PartialFailureDistinct ==
    \A p, q \in Calls :
      /\ call[p].raised # "None" /\ call[p].buy_seen
      /\ call[q].raised # "None" /\ "send" \notin call[q].net
      => call[p].result # call[q].result

\* C10: in the atomic path a bundle that is rejected on submission,
\* reported failed or not confirmed in time gives a failed TradeResult
\* whose gas_used is the tip computed for that bundle.
C10_FailedBundleCostIsTip ==
    \A p \in Calls :
      call[p].raised \in {"Failed to send bundle", "Bundle not confirmed"} =>
        /\ call[p].result.success = FALSE
        /\ call[p].pc = "save_trade" =>
             call[p].result.gas_used = call[p].tip_lamports


\* C23: no call is reverifying or about to submit a transaction or a
\* bundle while daily_loss >= max_daily_loss.
C23_NoExecutionAtLimit ==
    \A p \in Calls :
      call[p].pc \in ReverifyPcs \cup SubmitPcs => daily_loss < max_daily_loss

\* C24: a call that is granted the execution lock when its opportunity's
\* expires_at has passed is rejected as expired: it returns the expired
\* error and goes on neither to Reverify nor to an execution.
C24_ExpiredAfterWait ==
    [][\A p \in Calls :
         AcquireLock(p) /\ now >= call[p].opportunity.expires_at =>
           /\ call'[p].pc = "returned"
           /\ call'[p].result.error = "Opportunity expired"]_vars


\* C25: in the sequential path the sell transaction is submitted only by a
\* call whose status polls have observed the buy transaction confirmed.
C25_SellAfterConfirmedBuy ==
    [][\A p \in Calls : SendSell(p) => call[p].buy_seen]_vars


\* C26: a TradeResult of the sequential path has success = TRUE only if a
\* status poll observed the sell transaction confirmed.
C26_SuccessAfterConfirmedSell ==
    \A p \in Calls :
      call[p].result.success /\ call[p].result.sell_tx = "sell_tx" =>
        call[p].sell_seen


\* C27: the sell transaction that the sequential path submits was built
\* for the minimum of the estimate size_usd / buy_price and the token
\* balance verified after the buy, so for no more than that balance.
C27_SellClamped ==
    [][\A p \in Calls :
         SendSell(p) =>
           /\ call[p].sell_tx # None /\ call[p].verified_balance # None
           /\ Val(call[p].sell_tx) =
                  Min(SellAmount(call[p].opportunity),
                      Val(call[p].verified_balance))
           /\ Val(call[p].sell_tx) <= Val(call[p].verified_balance)]_vars
\* the verified balance was short of the estimate, and the transaction about
\* to be submitted has been rebuilt for the balance
C27_Witness ==
    \E p \in Calls :
      /\ call[p].pc = "send_sell"
      /\ call[p].verified_balance # None /\ call[p].sell_tx # None
      /\ 0 < Val(call[p].verified_balance)
      /\ Val(call[p].verified_balance) < SellAmount(call[p].opportunity)
      /\ Val(call[p].sell_tx) = Val(call[p].verified_balance)


\* the refreshed price of a venue among the prices that Reverify fetched
FreshPrice(c, dex) ==
    IF dex = "jupiter" THEN Val(c.fresh)[1] ELSE Val(c.fresh)[2]

\* C29: a call has passed Reverify only if refreshed prices were fetched
\* for its opportunity's own buy venue and sell venue, and the refreshed
\* sell price exceeds the refreshed buy price by at least 1.2% of the
\* latter.
C29_FreshSpread ==
    \A p \in Calls :
      call[p].fresh # None =>
        LET o == call[p].opportunity
            buy == FreshPrice(call[p], o.buy_dex)
            sell == FreshPrice(call[p], o.sell_dex)
        IN  /\ {o.buy_dex, o.sell_dex} = {"jupiter", "raydium"}
            /\ (sell - buy) * 1000 >= min_required_spread_x10 * buy


\* the stage of execute that a position belongs to: 0 before the call,
\* 2 RiskCheck passed and waiting for the lock, 3 Reverify, 4 SizeConfirm,
\* 5 Execute, 6 Settle, 7 after the call (Validate and RiskCheck, stages 1
\* and 2, are passed within the step that makes the call)
StageOf(pc) ==
    CASE pc = "idle" -> 0
      [] pc = "wait_lock" -> 2
      [] pc \in ReverifyPcs -> 3
      [] pc \in {"get_balance", "get_usdc_balance"} -> 4
      [] pc \in {"log_prices", "save_trade"} -> 6
      [] pc \in {"returned", "raised"} -> 7
      [] OTHER -> 5
\* from stage a to stage b: the next stage, or Settle when the stage fails;
\* the rejections of Validate and RiskCheck end the call at once
StageStep(a, b) ==
    \/ b = a
    \/ a = 0 /\ b \in {2, 3, 6, 7}
    \/ a \in {2, 3, 4, 5} /\ b \in {a + 1, 6}
    \/ a = 6 /\ b = 7

\* C30: a call moves from each stage to the next one or, when the stage
\* fails, to Settle; it submits a transaction or a bundle only after
\* Reverify has passed and SizeConfirm has found at least size_usd of USDC
\* and the minimum of SOL; and a call in Reverify reaches Settle.
C30_StageOrder ==
    /\ [][\A p \in Calls :
            StageStep(StageOf(call[p].pc), StageOf(call'[p].pc))]_vars
    /\ [][\A p \in Calls :
            SendBuy(p) \/ SendSell(p) \/ SendBundle(p) =>
              /\ call[p].fresh # None
              /\ call[p].sol_balance # None
              /\ Val(call[p].sol_balance) >= min_sol_lamports
              /\ call[p].usdc_balance >= call[p].opportunity.size_usd]_vars
    /\ \A p \in Calls :
         (call[p].pc \in ReverifyPcs) ~> (StageOf(call[p].pc) >= 6)
\* a call is in Settle with both legs of the sequential path sent
C30_Witness ==
    \E p \in Calls : /\ call[p].pc = "save_trade"
                     /\ call[p].result.success
                     /\ call[p].fresh # None
                     /\ {"send", "poll"} \subseteq call[p].net


\* C28: a call has passed Reverify only on prices that both came from an
\* external lookup made by the call itself, none from the PriceCache.
C28_ReverifyBypassesCache ==
    \A p \in Calls : call[p].fresh # None => call[p].cached = {}


\* C21: a pass of health_check through its loop body that ends when the
\* date is past last_loss_reset sets daily_loss to zero and last_loss_reset
\* to the date; one that ends on the date of last_loss_reset changes
\* neither.
C21_DayRoll ==
    [][health.pc # "sleep" /\ health'.pc = "sleep" =>
         IF today > last_loss_reset
         THEN daily_loss' = 0 /\ last_loss_reset' = today
         ELSE daily_loss' = daily_loss /\ last_loss_reset' = last_loss_reset
      ]_vars


\* C22: consecutive_errors is the number of cycles that have failed in a
\* row: a cycle that ends without error brings it to zero, a cycle that
\* fails adds one, and the loop is in its 30 second pause, which ends with
\* the count at zero, exactly when more than 5 cycles have failed in a row.
C22_ConsecutiveFailures ==
    /\ monitor.consecutive_errors = monitor.failed_run
    /\ monitor.pc = "cooldown" <=>
         monitor.failed_run > max_consecutive_errors


\* C31: an execution for which the atomic path is selected, of an
\* opportunity that buys on one venue and sells on another, builds both
\* legs when the builders answer: it does not fail for a missing buy or
\* sell transaction unless a builder returned none.
C31_AtomicBuildsBothLegs ==
    \A p \in Calls :
      /\ call[p].pc = "save_trade"
      /\ call[p].path = "jito"
      /\ call[p].opportunity.buy_dex # call[p].opportunity.sell_dex
      /\ call[p].raised \in {"Failed to build buy transaction",
                             "Failed to build sell transaction"}
      => "no_tx" \in call[p].net



\* the quotes that the scan had for the token of opportunity o
SeenFor(o) ==
    scan.seen[CHOOSE k \in 1..Len(Tokens) : Tokens[k] = o.token]
Opportunities == {scan.opportunities[n] : n \in 1..Len(scan.opportunities)}

\* C11: a scan holds, and returns, at most one opportunity per token.
C11_OnePerToken ==
    \A i, j \in 1..Len(scan.opportunities) :
        scan.opportunities[i].token = scan.opportunities[j].token => i = j
\* a scan has returned one opportunity for each of the two tokens
C11_Witness ==
    /\ scan.pc = "returned"
    /\ {o.token : o \in Opportunities} = {Tokens[k] : k \in 1..Len(Tokens)}

\* C12: every opportunity of a scan has buy_price < sell_price, its buy
\* venue and its sell venue are two different venues that returned a quote
\* for the token, and its prices are those two venues' prices.
C12_BuyBelowSell ==
    \A o \in Opportunities :
        /\ o.buy_price < o.sell_price
        /\ o.buy_dex # o.sell_dex
        /\ \E a, b \in 1..Len(SeenFor(o)) :
             /\ SeenFor(o)[a].dex = o.buy_dex
             /\ SeenFor(o)[a].price = o.buy_price
             /\ SeenFor(o)[b].dex = o.sell_dex
             /\ SeenFor(o)[b].price = o.sell_price
\* an opportunity buys on the venue asked later and sells on Jupiter
C12_Witness ==
    \E o \in Opportunities :
        /\ o.buy_dex = "orca" /\ o.sell_dex = "jupiter"
        /\ o.buy_price = 990 /\ o.sell_price = 1020

\* C13: a scan has an opportunity for a token only if at least two venues
\* returned a quote for it and two of these quotes differ by at least the
\* configured minimum, as a fraction of the lower of the two prices.
C13_ThresholdRequired ==
    \A o \in Opportunities :
        /\ Len(SeenFor(o)) >= 2
        /\ \E a, b \in 1..Len(SeenFor(o)) :
             LET pa == SeenFor(o)[a].price
                 pb == SeenFor(o)[b].price
             IN  /\ a < b
                 /\ Abs(pa - pb) * 1000 >=
                        scan.min_price_difference * Min(pa, pb)
\* quotes of 1.000 and 1.001 under the 0.7% threshold gave nothing for the
\* first token, and a spread of 1.7% that would pay stayed under the 2%
\* threshold or passed the 0.7% one for the second
C13_Witness ==
    /\ scan.pc = "returned"
    /\ Len(scan.seen) = 2
    /\ {e.price : e \in {scan.seen[1][n] : n \in 1..Len(scan.seen[1])}}
           = {1000, 1001}
    /\ {e.price : e \in {scan.seen[2][n] : n \in 1..Len(scan.seen[2])}}
           = {990, 1007}
    /\ \A o \in Opportunities : o.token = Tokens[2]
    /\ Opportunities # {} <=> scan.min_price_difference = 7

\* C14: the price-impact estimate is non-decreasing in the notional: for
\* all sizes a <= b the estimate for a is at most the estimate for b.
C14_ImpactMonotone ==
    impact.pc = "done" /\ impact.a <= impact.b =>
        Val(impact.impact_a) <= Val(impact.impact_b)


\* C15: a price lookup whose response carries a liquidity below the token's
\* minimum-liquidity floor returns nothing, and one whose response carries
\* a liquidity at or above the floor and a positive price returns that quote.
C15_LiquidityFloor ==
    quote.pc = "returned" /\ quote.response.kind = "ok" =>
        /\ quote.response.liquidity < min_liquidity => quote.result = None
        /\ quote.response.liquidity >= min_liquidity /\ quote.response.price > 0
             => quote.result =
                    Some(<<quote.response.price, quote.response.liquidity>>)

\* C16: a price lookup that ends in a network error, a timeout, a status
\* other than 200 or a malformed body returns nothing, does not raise, and
\* leaves the cache without an entry for its key.
C16_FailureIsUnavailable ==
    /\ quote.pc # "raised"
    /\ quote.pc = "returned" /\ quote.response.kind \in Failures =>
         /\ quote.result = None
         /\ cache_key(quote.dex) \notin KeysOf(price_cache.cache)
\* a lookup has failed while the cache holds the other venue's quote
C16_Witness ==
    /\ quote.pc = "returned"
    /\ quote.response.kind \in Failures
    /\ quote.result = None
    /\ price_cache.cache # <<>>

\* the acquire calls so far, the one still asleep included (done = -1)
AllAcquisitions ==
    IF limiter.pc = "sleeping"
    THEN Append(acquisitions, Acquired(limiter.start, limiter.sleep_time, -1))
    ELSE acquisitions

\* C17: from a full bucket the first burst acquisitions complete without
\* waiting, and the next one, made before a whole token has been refilled,
\* waits (1 - tokens) / calls_per_second: 1 / calls_per_second less the
\* time elapsed since the first acquisition, and never returns earlier.
C17_BurstThenWait ==
    \A n \in 1..Len(AllAcquisitions) :
      LET a == AllAcquisitions[n]
          elapsed == a.start - AllAcquisitions[1].start
      IN  /\ n <= burst => a.sleep_time = 0 /\ a.done = a.start
          /\ n = burst + 1 =>
               /\ a.sleep_time * calls_per_second =
                      Max(0, TicksPerSecond - elapsed * calls_per_second)
               /\ a.done # -1 => a.done >= a.start + a.sleep_time
\* burst + 1 acquisitions back to back: the last one waited 1/calls_per_second
C17_Witness ==
    /\ Len(acquisitions) > burst
    /\ \A n \in 1..burst : acquisitions[n] = Acquired(0, 0, 0)
    /\ acquisitions[burst + 1].start = 0
    /\ acquisitions[burst + 1].sleep_time * calls_per_second = TicksPerSecond
    /\ acquisitions[burst + 1].done =
           acquisitions[burst + 1].sleep_time

\* C18: in any time window the number of acquisitions that complete is at
\* most burst + calls_per_second * (length of the window).
C18_RateBound ==
    \A i, j \in 1..Len(acquisitions) :
      i <= j =>
        (j - i + 1) * TicksPerSecond <=
          burst * TicksPerSecond +
          calls_per_second * (acquisitions[j].done - acquisitions[i].done)
\* C19: get(key) returns the stored value exactly when an entry for the key
\* exists and its age is strictly less than ttl, and then the entry stays;
\* otherwise get returns nothing and the cache holds no entry for the key.
C19_GetIffFresh ==
    [][\A key \in CacheKeys :
         get(key) =>
           LET c == price_cache.cache
               n == Position(c, key)
           IN  IF n # 0 /\ clock - c[n].timestamp < ttl
               THEN /\ cache_call'.result = Some(c[n].value)
                    /\ \E m \in 1..Len(price_cache'.cache) :
                         price_cache'.cache[m] = c[n]
               ELSE /\ cache_call'.result = None
                    /\ key \notin KeysOf(price_cache'.cache)]_vars
\* a get found its entry expired and removed it, others staying
C19_Witness ==
    /\ cache_call.op = "get"
    /\ cache_call.result = None
    /\ cache_call.evicted # {}
    /\ price_cache.cache # <<>>

\* the place of a key in the order of last use before the step
RecencyIndex(key) ==
    CHOOSE n \in 1..Len(cache_call.recency) : cache_call.recency[n] = key

\* C20: the size-limited cache never holds more than max_size entries, and
\* every entry that a set drops was used less recently than every entry
\* that stays.
C20_LruEviction ==
    [][price_cache.impl = "modules" =>
         /\ Len(price_cache'.cache) <= max_size
         /\ \A key \in CacheKeys : \A value \in CacheValues :
              set(key, value) =>
                \A gone \in KeysOf(price_cache.cache) \
                            KeysOf(price_cache'.cache) :
                  \A stays \in KeysOf(price_cache.cache) \cap
                               KeysOf(price_cache'.cache) :
                    RecencyIndex(gone) < RecencyIndex(stays)]_vars
\* a set on the full size-limited cache dropped an entry and kept another
C20_Witness ==
    /\ price_cache.impl = "modules"
    /\ cache_call.op = "set"
    /\ cache_call.evicted # {}
    /\ Len(price_cache.cache) = max_size
\* the n-th pair of prices in the order of the pair loop, its price
\* difference and its lower price
PairAt(prices, n) ==
    LET ij == PairsOf(Len(prices))[n]
        a == prices[ij[1]]
        b == prices[ij[2]]
    IN  [a |-> a, b |-> b, price_diff |-> Abs(a.price - b.price),
         low |-> Min(a.price, b.price)]
\* the percentage difference of pair x is below that of pair y
PctBelow(x, y) == x.price_diff * y.low < y.price_diff * x.low
\* the pairs whose percentage difference is at least the minimum
Qualifying(prices) ==
    { n \in 1..Len(PairsOf(Len(prices))) :
        difference_sufficient(PairAt(prices, n).price_diff,
                              PairAt(prices, n).low) }
\* the pairs whose percentage difference no pair exceeds
Largest(prices) ==
    { n \in 1..Len(PairsOf(Len(prices))) :
        \A m \in 1..Len(PairsOf(Len(prices))) :
           ~PctBelow(PairAt(prices, n), PairAt(prices, m)) }
\* the quotes of a token that the pair loop compares without raising
Compared(prices) == Len(prices) >= 2 /\ ~DivisionByZero(prices)

QuoteOf(o, dex) ==
    LET prices == SeenFor(o)
    IN  prices[CHOOSE n \in 1..Len(prices) : prices[n].dex = dex]
\* the lower of the liquidities of the two venues of o, in dollars
LiquidityOf(o) ==
    Min(QuoteOf(o, o.buy_dex).liquidity, QuoteOf(o, o.sell_dex).liquidity)
\* the rungs of the ladder of the scan
Ladder == {trade_sizes(scan.usdc_balance)[n] :
             n \in 1..Len(trade_sizes(scan.usdc_balance))}
\* a size whose impact on both legs is within the cap and whose net profit
\* at the prices of o meets the absolute floor and the 1% margin floor
Pays(o, size_usd) ==
    /\ 2 * calculate_price_impact(size_usd) <= scan.max_price_impact
    /\ net_profit(size_usd, o) >= min_profit_usd
    /\ net_profit(size_usd, o) * 100 >= min_margin_percent * size_usd * 10000
\* the size of o is a rung that pays, no smaller rung pays, and the
\* size is at most limit (in tenths of a dollar)
FirstThatPays(o, limit) ==
    /\ o.size_usd \in Ladder
    /\ o.size_usd * 10 <= limit
    /\ Pays(o, o.size_usd)
    /\ \A size_usd \in Ladder : size_usd < o.size_usd => ~Pays(o, size_usd)

\* C33 (as stated): the size of every opportunity of a scan is the first
\* rung of the ladder that pays, and it is at most the least of half the
\* balance, a tenth of the liquidity and the configured cap.
C33_FirstSizeWithinMax ==
    \A o \in Opportunities :
      FirstThatPays(o, Min(scan.usdc_balance * 5,
                           Min(max_position_size * 10, LiquidityOf(o))))

\* C33 (amended): the size of every opportunity of a scan is the first
\* rung of the ladder that pays, and it is at most the least of half the
\* balance, the configured cap and a tenth of the liquidity, where for the
\* symbols BONK, WIF, POPCAT and MEME the tenth of the liquidity counts as
\* $1000 at least.
C33_FirstSizeWithinFlooredMax ==
    \A o \in Opportunities :
      FirstThatPays(o,
        Min(scan.usdc_balance * 5,
            Min(max_position_size * 10,
                IF o.token \in LowLiquiditySymbols
                THEN Max(LiquidityOf(o), 1000 * 10)
                ELSE LiquidityOf(o))))

\* C33 (witness): a scan has returned an opportunity of the second rung,
\* the first not paying, and one for a symbol with the floor whose size is
\* above a tenth of the liquidity
C33_Witness ==
    /\ scan.pc = "returned"
    /\ \E o \in Opportunities :
         /\ o.size_usd = 50
         /\ 20 \in Ladder
    /\ \E o \in Opportunities :
         /\ o.token \in LowLiquiditySymbols
         /\ o.size_usd * 10 > LiquidityOf(o)


\* C34: every opportunity that a scan holds, but for the one whose
\* save_opportunity call is in progress, has been written to the database:
\* the scan goes on to the next token, and returns, with persisted
\* opportunities only.
C34_PersistedBeforeNext ==
    \A n \in 1..Len(scan.opportunities) :
      \/ scan.pc = "save_opportunity" /\ n = Len(scan.opportunities)
      \/ \E m \in 1..Len(scan.persisted) :
           scan.persisted[m] = scan.opportunities[n]


\* C35: the bucket never holds less than nothing nor more than burst
\* tokens: an acquire of n tokens takes them only when the bucket holds n
\* at least.
C35_TokensWithinBucket ==
    limiter.tokens \in 0..(burst * TokenUnits)


\* the tasks that are inside the lock of the limiter
Sleepers == {p \in Callers : acquirers.call[p].pc = "sleeping"}

\* C36: concurrent acquire calls are served one at a time and in the
\* order in which they entered "async with self.lock": at most one task is
\* inside the lock, which it holds while it sleeps; while it sleeps no
\* other task refills or debits the bucket; and the calls return in the
\* order in which they were made.
C36_OneAtATimeInOrder ==
    /\ [](/\ Cardinality(Sleepers) <= 1
          /\ Sleepers # {} => acquirers.locked
          /\ Len(acquirers.served) <= Len(acquirers.requested)
          /\ \A n \in 1..Len(acquirers.served) :
               acquirers.served[n] = acquirers.requested[n])
    /\ [][\A p \in Sleepers :
            limiter' # limiter => acquirers'.call[p].pc = "idle"]_vars

\* C36 (witness): a task sleeps inside the lock while the two others wait
\* for it, after earlier calls have returned
C36_Witness ==
    /\ Sleepers # {}
    /\ Len(acquirers.waiters) = 2
    /\ Len(acquirers.served) >= burst

\* C37: a set on a key already present in the size-limited cache replaces
\* the key's value and timestamp and leaves the set of keys as it was, also
\* when the cache holds max_size entries.
C37_OverwriteKeepsKeys ==
    [][\A key \in CacheKeys : \A value \in CacheValues :
         (/\ price_cache.impl = "modules"
          /\ key \in KeysOf(price_cache.cache)
          /\ set(key, value)) =>
           /\ KeysOf(price_cache'.cache) = KeysOf(price_cache.cache)
           /\ price_cache'.cache[Position(price_cache'.cache, key)] =
                Entry(key, value, clock)]_vars

\* C38: daily_loss and last_loss_reset are written only in a step of the
\* call that holds the execution lock; no other task writes them, the
\* reset at the change of day included.
C38_WrittenUnderLock ==
    [][(daily_loss' # daily_loss \/ last_loss_reset' # last_loss_reset) =>
         /\ execution_lock # 0
         /\ call'[execution_lock] # call[execution_lock]
         /\ health' = health]_vars

\* C39: an exception in a scan cycle never ends the monitor loop: the task
\* never dies of an exception, it leaves the loop only when running has
\* been cleared, and after a failed cycle, while running stays set, it
\* sleeps and starts the next cycle.
C39_FailedCycleGoesOn ==
    /\ [](monitor.pc # "crashed")
    /\ [][monitor'.pc = "done" /\ monitor.pc # "done" => ~running]_vars
    /\ [][monitor.ended = "failed" /\ monitor.pc \in {"sleep", "cooldown"}
            /\ monitor' # monitor => monitor'.pc \in {"sleep", "loop"}]_vars
    /\ (monitor.ended = "failed" /\ monitor.pc \in {"sleep", "cooldown"})
          ~> (monitor.pc = "find" \/ ~running)
\* the cycle after a failed one has started
C39_Witness ==
    /\ running
    /\ monitor.ended = "failed"
    /\ monitor.pc = "find"

\* an execute_arbitrage call is between its start and its return
InFlight == call[1].pc \notin {"idle", "returned", "raised"}

\* C40: once running has been cleared no scan cycle and no execution is
\* started, an execution in flight reaches save_trade and returns with its
\* TradeResult recorded, and the monitor task and the health task both
\* come to their end.
C40_ShutdownDrains ==
    /\ [][~running => ~(monitor.pc # "find" /\ monitor'.pc = "find")]_vars
    /\ [][~running => ~(call[1].pc = "idle" /\ call'[1].pc # "idle")]_vars
    /\ (~running /\ InFlight)
          ~> (call[1].pc = "returned" /\ call[1].saved = 1)
    /\ ~running ~> (monitor.pc = "done" /\ health.pc = "done")

====
